---- MODULE Spec2Model ----
(***************************************************************************)
(* Position sizing and trade execution engine of crypto-ai-trader          *)
(* (src/deepseekok2.py, src/market_utils.py, src/config/settings.py).      *)
(*                                                                         *)
(* One worker per symbol runs execute_trade; the exchange (balance         *)
(* responses, order outcomes, position fetches) is the environment.        *)
(* Money is in USDT, quantities in whole contracts, time in seconds.       *)
(* Fractions of the code (ratios, divisions) are kept exact by comparing   *)
(* cross-multiplied integers: a margin m is carried as the numerator of    *)
(* m / MarginDen.                                                          *)
(***************************************************************************)
EXTENDS Integers, Sequences, FiniteSets, TLC

VARIABLES
    clock,          \* datetime.now(), seconds
    lock,           \* holder of order_execution_lock, or NoWorker
    config,         \* TRADE_CONFIGS flags per symbol: test_mode, enable_add_position
    exPos,          \* exchange: net position per symbol [side, size]
    exLev,          \* exchange: leverage set per symbol
    tradeHistory,   \* web_data["symbols"][s]["trade_history"]
    webPos,         \* web_data["symbols"][s]["current_position"]
    pc,             \* position of each symbol worker inside execute_trade
    loc,            \* local variables of each worker's execute_trade call
    calls,          \* exchange calls made by the current execute_trade call, in order
    cycles,         \* execute_trade invocations started so far, per symbol
    served,         \* symbols whose task of the current trading cycle was submitted
    inputs,         \* the sets this run draws decisions and balance responses from
    stop,           \* STOP_EVENT is set
    mainPc,         \* position of the bot thread inside main
    ctx,            \* index in MODEL_ORDER of the context being processed, 0 before the first
    accounts,       \* per model context: the account and web_data it keeps while not active
    signalHistory,  \* signal_history[s] of the active context
    task,           \* what analyze_with_llm returned to the running run_symbol_cycle
    timedOut,       \* symbols whose future.result(timeout=60) raised in the current batch
    web,            \* the server thread inside start_bot: its position, context index, starts so far
    calc,           \* arguments and results of the market_utils and sizing-matrix functions applied
    dataLock        \* holder of data_lock, or NoWorker

vars == <<clock, lock, config, exPos, exLev, tradeHistory, webPos, pc, loc, calls, cycles, served, inputs,
          stop, mainPc, ctx, accounts, signalHistory, task,
          timedOut, web, calc, dataLock>>

\* the state only main, run_all_symbols_parallel and analyze_with_llm write
loopVars == <<stop, mainPc, ctx, accounts, signalHistory, task, timedOut, web, calc, dataLock>>

----------------------------------------------------------------------------
(* Bounds of the model *)

MaxCycles == 3
MaxSiblingCycles == 1
MaxSizingCycles == 1
MaxTicks == 4
MaxPeriods == 1
MaxStarts == 2
LowBalance == 10

(* Program constants *)

TradeIntervalMinutes == 5
HardCooldownMinutes == 10
SoftCooldownMinutes == 20
WhipsawWindowMinutes == 30
MaxRetries == 2
TradeHistoryLimit == 100
LeverageDefault == 2
MaxTotalMarginRatioPct == 85
MarginSafetyBufferPct == 90
FallbackMarginPct == 35
DownsizeDiscountPct == 95
HalvingPct == 50
LeverageMin == 1
LeverageMax == 3
UsableSharePct == 80
DefaultAnalysisBalance == 1000
SignalHistoryLimit == 200
MarginDen == 100 * 100

Symbols == {"BTC", "ETH"}
NoWorker == "nobody"
Signals == {"BUY", "SELL", "CLOSE", "HOLD"}
Confidences == {"HIGH", "MEDIUM", "LOW"}

\* CONFIDENCE_RATIOS, in percent
ConfidenceRatioPct(confidence) ==
    CASE confidence = "HIGH" -> 30
      [] confidence = "MEDIUM" -> 20
      [] confidence = "LOW" -> 5
      [] OTHER -> 10

\* leverage values the decision layer can hand over (leverage_min .. leverage_max)
LeverageChoices == {1, 2, 3}

\* price_data["price"], USDT per base unit
Price(symbol) == IF symbol = "BTC" THEN 30 ELSE 2

\* get_symbol_contract_specs: contract size in base units, minimum and step in contracts
ContractSize(symbol) == IF symbol = "BTC" THEN 1 ELSE 10
SpecMinContracts(symbol) == 1
AmountStep(symbol) == IF symbol = "BTC" THEN 1 ELSE 2

----------------------------------------------------------------------------
(* Arithmetic helpers *)

Min(a, b) == IF a <= b THEN a ELSE b
Max(a, b) == IF a >= b THEN a ELSE b

\* math.ceil(n / d) for d > 0
CeilDiv(n, d) == -((-n) \div d)

\* exchange.amount_to_precision: truncation to the exchange's amount step
AmountToPrecision(symbol, contracts) == (contracts \div AmountStep(symbol)) * AmountStep(symbol)

\* a normaliser that rounds up to whole contracts and ignores the step
AdjustToWholeContracts(symbol, n, d) == CeilDiv(n, d)

\* adjust_contract_quantity(symbol, n / d, round_up=True)
AdjustContractQuantity(symbol, n, d) ==
    AmountToPrecision(symbol, CeilDiv(n, d * AmountStep(symbol)) * AmountStep(symbol))

\* contracts_to_base
ContractsToBase(symbol, contracts) == contracts * ContractSize(symbol)

\* min_contracts as execute_trade uses it: the resolver's floor rounded up to the step
MinContracts(symbol) ==
    IF SpecMinContracts(symbol) > 0
    THEN AdjustContractQuantity(symbol, SpecMinContracts(symbol), 1)
    ELSE 0

\* numerator (over MarginDen * leverage) of price * contracts_to_base(contracts) / leverage
RequiredNum(symbol, contracts) ==
    Price(symbol) * ContractsToBase(symbol, contracts) * MarginDen

\* required_margin > usable margin, for usable margin usableNum / MarginDen
ExceedsMargin(symbol, contracts, leverage, usableNum) ==
    RequiredNum(symbol, contracts) > usableNum * leverage

----------------------------------------------------------------------------
(* Balance responses of exchange.fetch_balance() and the usable margin *)

\* A response carries the standard USDT entry, the OKX info.data.details entry, or both
BalanceResponses ==
    { [hasUSDT |-> TRUE,  free |-> 400, hasDetails |-> TRUE,  availBal |-> 400, eq |-> 400, imr |-> 0],
      [hasUSDT |-> TRUE,  free |-> 100, hasDetails |-> TRUE,  availBal |-> 100, eq |-> 400, imr |-> 300],
      [hasUSDT |-> TRUE,  free |-> 50,  hasDetails |-> TRUE,  availBal |-> 50,  eq |-> 400, imr |-> 350],
      [hasUSDT |-> TRUE,  free |-> 200, hasDetails |-> FALSE, availBal |-> 0,   eq |-> 0,   imr |-> 0],
      [hasUSDT |-> FALSE, free |-> 0,   hasDetails |-> TRUE,  availBal |-> 400, eq |-> 400, imr |-> 0],
      [hasUSDT |-> TRUE,  free |-> 0,   hasDetails |-> TRUE,  availBal |-> 0,   eq |-> 0,   imr |-> 0] }

\* usdt_balance of the first snapshot: the USDT entry first, else the details entry
ParseUsdtBalance(resp) ==
    IF resp.hasUSDT THEN resp.free
    ELSE IF resp.hasDetails THEN resp.availBal
    ELSE 0

\* a usable margin that leaves the safety buffer out
UsableWithoutBuffer(resp, usdt) ==
    IF resp.hasDetails
    THEN Min(100 * resp.availBal, MaxTotalMarginRatioPct * resp.eq - 100 * resp.imr) * 100
    ELSE usdt * FallbackMarginPct * 100

\* max_usable_margin / fresh_max_margin as a numerator over MarginDen:
\* min(availBal, eq * MAX_TOTAL_MARGIN_RATIO - imr) * MARGIN_SAFETY_BUFFER when the
\* details entry is there, else 0.35 * usdt
UsableMarginNum(resp, usdt) ==
    IF resp.hasDetails
    THEN Min(100 * resp.availBal, MaxTotalMarginRatioPct * resp.eq - 100 * resp.imr)
             * MarginSafetyBufferPct
    ELSE usdt * FallbackMarginPct * 100

----------------------------------------------------------------------------
(* Sizing of execute_trade, first margin check *)

\* what the decision gives for the size: nothing, order_quantity (base units) or
\* order_value (USDT)
SizeHints ==
    { [kind |-> "none", v |-> 0],
      [kind |-> "quantity", v |-> 20],
      [kind |-> "value", v |-> 10],
      [kind |-> "value", v |-> 240] }

\* adjust_contract_quantity(symbol, max(n / d, min_contracts), round_up=True)
AdjustAtLeastMin(symbol, n, d) ==
    IF n < MinContracts(symbol) * d
    THEN AdjustContractQuantity(symbol, MinContracts(symbol), 1)
    ELSE AdjustContractQuantity(symbol, n, d)

\* expected_contracts: the standard quantity of the confidence tier and leverage
ExpectedContracts(symbol, confidence, leverage, usableNum) ==
    AdjustAtLeastMin(symbol,
                     usableNum * ConfidenceRatioPct(confidence) * leverage,
                     MarginDen * 100 * Price(symbol) * ContractSize(symbol))

\* trade_contracts before normalisation, as a fraction <<n, d>>
RawTradeContracts(symbol, confidence, leverage, hint, usableNum) ==
    LET expected == ExpectedContracts(symbol, confidence, leverage, usableNum)
        expectedQty == ContractsToBase(symbol, expected)
    IN  CASE hint.kind = "quantity" ->
                IF expectedQty > 0
                   /\ (hint.v * 10 < expectedQty * 8 \/ hint.v * 10 > expectedQty * 12)
                THEN <<expected, 1>>
                ELSE <<hint.v, ContractSize(symbol)>>
          [] hint.kind = "value" -> <<hint.v, Price(symbol) * ContractSize(symbol)>>
          [] OTHER -> <<expected, 1>>

\* the dynamic downsize: the contracts affordable under 95% of the usable margin,
\* floored at min_contracts and rounded up to the step
DownsizedContracts(symbol, leverage, usableNum) ==
    AdjustAtLeastMin(symbol,
                     usableNum * DownsizeDiscountPct * leverage,
                     MarginDen * 100 * Price(symbol) * ContractSize(symbol))

\* min_quantity
MinQuantity(symbol) == ContractsToBase(symbol, MinContracts(symbol))

\* the downsized quantity is accepted
DownsizeAccepted(symbol, contracts) ==
    /\ contracts >= MinContracts(symbol)
    /\ ContractsToBase(symbol, contracts) >= MinQuantity(symbol)

\* lines 702-745: [ok, contracts]; ok = FALSE is an early return
FirstCheck(symbol, confidence, leverage, hint, usableNum) ==
    LET raw == RawTradeContracts(symbol, confidence, leverage, hint, usableNum)
        minC == MinContracts(symbol)
        belowMin == minC > 0 /\ raw[1] < minC * raw[2]
        normalized == IF belowMin THEN AdjustAtLeastMin(symbol, minC, 1)
                      ELSE AdjustAtLeastMin(symbol, raw[1], raw[2])
        adjusted == DownsizedContracts(symbol, leverage, usableNum)
    IN  IF belowMin /\ ExceedsMargin(symbol, minC, leverage, usableNum)
        THEN [ok |-> FALSE, contracts |-> 0]
        ELSE IF minC > 0 /\ normalized < minC
        THEN [ok |-> FALSE, contracts |-> 0]
        ELSE IF ~ExceedsMargin(symbol, normalized, leverage, usableNum)
        THEN [ok |-> TRUE, contracts |-> normalized]
        ELSE IF DownsizeAccepted(symbol, adjusted)
        THEN [ok |-> TRUE, contracts |-> adjusted]
        ELSE [ok |-> FALSE, contracts |-> 0]

\* a second check that lets every quantity through
SecondCheckPassesAll(symbol, contracts, leverage, freshNum) ==
    [ok |-> TRUE, contracts |-> contracts]

\* lines 806-828: the second check against the fresh usable margin
SecondCheck(symbol, contracts, leverage, freshNum) ==
    LET adjusted == DownsizedContracts(symbol, leverage, freshNum)
    IN  IF ~ExceedsMargin(symbol, contracts, leverage, freshNum)
        THEN [ok |-> TRUE, contracts |-> contracts]
        ELSE IF DownsizeAccepted(symbol, adjusted)
        THEN [ok |-> TRUE, contracts |-> adjusted]
        ELSE [ok |-> FALSE, contracts |-> 0]

----------------------------------------------------------------------------
(* State *)

NoPosition == [side |-> "none", size |-> 0, leverage |-> 0]
NoAge == -1

\* the locals of an execute_trade call that has not started
\* no balance response taken yet
NoSnapshot ==
    [hasUSDT |-> FALSE, free |-> 0, hasDetails |-> FALSE, availBal |-> 0, eq |-> 0, imr |-> 0]

NoLocals ==
    [signal |-> "NONE", confidence |-> "NONE", position |-> NoPosition,
     timeDiff |-> NoAge, lastSide |-> "none", testMode |-> FALSE,
     leverage |-> 0, maxUsable |-> 0, freshMax |-> 0, checked |-> FALSE,
     contracts |-> 0, attempt |-> 0, tradeType |-> "none",
     balance |-> NoSnapshot, fresh_balance |-> NoSnapshot,
     error |-> "none"]

\* the shipped TRADE_CONFIGS flags and the operator-facing variations of them
ShippedConfig == [s \in Symbols |-> [test_mode |-> FALSE, enable_add_position |-> FALSE]]

ConfigChoices ==
    { ShippedConfig,
      [s \in Symbols |-> [test_mode |-> FALSE, enable_add_position |-> (s = "BTC")]],
      [s \in Symbols |-> [test_mode |-> (s = "ETH"), enable_add_position |-> FALSE]] }

\* the whole range of decisions and balance responses, for the execute_trade calls of
\* one symbol
SizingInputs(symbol) ==
    [responses |-> BalanceResponses, leverages |-> LeverageChoices, hints |-> SizeHints,
     fetches |-> BOOLEAN,
     cycles |-> [s \in Symbols |-> IF s = symbol THEN MaxSizingCycles ELSE 0],
     horizon |-> TradeIntervalMinutes * 60]

\* several calls in a row on both symbols, with the decisions that leave size and
\* leverage to the engine and the balance response of an account with no margin in use
TradingInputs ==
    [responses |-> {r \in BalanceResponses : r.hasUSDT /\ r.hasDetails /\ r.free > 0 /\ r.imr = 0},
     leverages |-> {LeverageDefault},
     hints |-> {h \in SizeHints : h.kind = "none"},
     fetches |-> {TRUE},
     cycles |-> [s \in Symbols |-> IF s = "BTC" THEN MaxCycles ELSE MaxSiblingCycles],
     horizon |-> MaxTicks * TradeIntervalMinutes * 60]

\* positions the account may already hold on the exchange when the bot starts
InitialPositions ==
    { [s \in Symbols |-> held] :
        held \in { [side |-> "none", size |-> 0], [side |-> "long", size |-> 4],
                   [side |-> "short", size |-> 4] } }

\* MODEL_ORDER: the enabled model contexts, in the order main processes them
ModelOrder == <<"deepseek", "qwen">>
Contexts == 1..Len(ModelOrder)

\* TRADE_CONFIGS.items(): the order in which a batch submits the symbols
SymbolOrder == <<"BTC", "ETH">>

\* a decision without a leverage field
NoLeverage == -1

\* a leverage field that int() does not convert
NotANumber == -2

\* no reply of the decision layer (the analysis did not ask for one)
NoReply ==
    [raised |-> FALSE, present |-> FALSE, choices |-> FALSE, text |-> "none",
     fields |-> {}, signal |-> "NONE", confidence |-> "NONE", leverage |-> NoLeverage]

\* what run_symbol_cycle holds of the analysis before analyze_with_llm has returned
NoTask ==
    [reply |-> NoReply, llmCalled |-> FALSE, balance |-> 0, signal |-> "NONE",
     confidence |-> "NONE", leverage |-> NoLeverage, insufficient |-> FALSE,
     fallback |-> FALSE, recorded |-> FALSE]

\* the account and web_data of one model context
Account(positions) ==
    [exPos |-> positions,
     exLev |-> [s \in Symbols |-> LeverageDefault],
     tradeHistory |-> [s \in Symbols |-> << >>],
     webPos |-> [s \in Symbols |-> NoPosition],
     signalHistory |-> [s \in Symbols |-> << >>]]

FlatPositions == [s \in Symbols |-> [side |-> "none", size |-> 0]]

\* the state after construction: empty histories, leverage set by setup_exchange
\* the server thread outside start_bot, and no function of market_utils applied
WebIdle == [pc |-> "idle", ctx |-> 0, starts |-> 0]

NoCalc == [fn |-> "none"]

\* the module state after import: nothing held, nothing recorded, no worker running
Constructed ==
    /\ clock = 0
    /\ lock = NoWorker
    /\ exLev = [s \in Symbols |-> LeverageDefault]
    /\ tradeHistory = [s \in Symbols |-> << >>]
    /\ webPos = [s \in Symbols |-> NoPosition]
    /\ pc = [s \in Symbols |-> "idle"]
    /\ loc = [s \in Symbols |-> NoLocals]
    /\ calls = [s \in Symbols |-> << >>]
    /\ cycles = [s \in Symbols |-> 0]
    /\ served = {}
    /\ stop = FALSE
    /\ ctx = 0
    /\ signalHistory = [s \in Symbols |-> << >>]
    /\ task = [s \in Symbols |-> NoTask]
    /\ timedOut = {}
    /\ dataLock = NoWorker

\* python deepseekok2.py: main has set the exchanges up and is at the head of its loop
Started ==
    /\ Constructed
    /\ mainPc = "top"
    /\ web = WebIdle
    /\ calc = NoCalc

Init ==
    /\ Started
    /\ config = ShippedConfig
    /\ exPos = FlatPositions
    /\ accounts = [c \in Contexts |-> Account(FlatPositions)]
    /\ inputs = TradingInputs

InitSizing ==
    /\ Started
    /\ config \in ConfigChoices
    /\ exPos \in InitialPositions
    /\ accounts = [c \in Contexts |-> Account(FlatPositions)]
    /\ inputs \in {SizingInputs(symbol) : symbol \in Symbols}

----------------------------------------------------------------------------
(* The exchange *)

Opposite(side) == IF side = "long" THEN "short" ELSE "long"
OrderSide(positionSide) == IF positionSide = "short" THEN "buy" ELSE "sell"
SideOfOrder(orderSide) == IF orderSide = "buy" THEN "long" ELSE "short"

\* get_current_position: the exchange's position with contracts > 0, or None when
\* there is none or fetch_positions fails
GetCurrentPosition(s, fetched) ==
    IF fetched /\ exPos[s].size > 0
    THEN [side |-> exPos[s].side, size |-> exPos[s].size, leverage |-> exLev[s]]
    ELSE NoPosition

\* outcomes of create_market_order; a reduce-only order needs exposure to reduce
OrderOutcomes(s, orderSide, reduceOnly) ==
    IF reduceOnly /\ ~(exPos[s].size > 0 /\ exPos[s].side = Opposite(SideOfOrder(orderSide)))
    THEN {"insufficient", "error"}
    ELSE {"ok", "insufficient", "error"}

\* the net position after a filled market order
FilledPosition(pos, orderSide, qty, reduceOnly) ==
    LET side == SideOfOrder(orderSide)
    IN  IF pos.size = 0 \/ pos.side = side
        THEN [side |-> side, size |-> pos.size + qty]
        ELSE IF qty < pos.size THEN [side |-> pos.side, size |-> pos.size - qty]
        ELSE IF qty = pos.size \/ reduceOnly THEN [side |-> "none", size |-> 0]
        ELSE [side |-> side, size |-> qty - pos.size]

\* one entry of the log of exchange calls
OrderCall(s, orderSide, qty, reduceOnly, outcome) ==
    [op |-> "order", side |-> orderSide, qty |-> qty, reduceOnly |-> reduceOnly,
     ok |-> (outcome = "ok"), locked |-> (lock = s), leverage |-> loc[s].leverage,
     attempt |-> loc[s].attempt, heldBefore |-> exPos[s].side,
     outcome |-> outcome, target |-> loc[s].contracts]

LeverageCall(s, value, ok) ==
    [op |-> "set_leverage", side |-> "none", qty |-> value, reduceOnly |-> FALSE,
     ok |-> ok, locked |-> (lock = s), leverage |-> value,
     attempt |-> 0, heldBefore |-> exPos[s].side,
     outcome |-> IF ok THEN "ok" ELSE "error", target |-> loc[s].contracts]

----------------------------------------------------------------------------
(* execute_trade: guards and dispatch, lines 446-576 *)

\* minutes * 60 > seconds elapsed: time_diff < minutes
Younger(timeDiff, minutes) == timeDiff < minutes * 60

\* a protection block that leaves CLOSE alone
CooldownSkipsClose(signal) == signal \notin {"HOLD", "CLOSE"}

\* the signals the trade protection block applies to
CooldownApplies(signal) == signal # "HOLD"

\* a cooldown without the 10 to 20 minute tier
HardCooldownOnly(signal, confidence, timeDiff) ==
    /\ CooldownApplies(signal)
    /\ timeDiff # NoAge
    /\ Younger(timeDiff, HardCooldownMinutes)

\* the cooldown part of the protection block rejects the signal
CooldownRejects(signal, confidence, timeDiff) ==
    /\ CooldownApplies(signal)
    /\ timeDiff # NoAge
    /\ \/ Younger(timeDiff, HardCooldownMinutes)
       \/ Younger(timeDiff, SoftCooldownMinutes) /\ confidence # "HIGH"

\* the reversal part of the protection block rejects the signal
WhipsawRejects(signal, position, timeDiff, lastSide) ==
    /\ CooldownApplies(signal)
    /\ timeDiff # NoAge
    /\ signal \in {"BUY", "SELL"}
    /\ position # NoPosition
    /\ LET newSide == IF signal = "BUY" THEN "long" ELSE "short"
       IN  /\ newSide # position.side
           /\ lastSide = newSide
           /\ Younger(timeDiff, WhipsawWindowMinutes)

\* a CLOSE that is carried out at any confidence
CloseAtAnyConfidence(confidence) == TRUE

\* line 491: a CLOSE is carried out at confidence HIGH only
CloseConfident(confidence) == confidence = "HIGH"

\* an execute_trade that takes a BUY or SELL of any confidence to the lock
LowConfidenceTrades(confidence, testMode) == FALSE

\* lines 569-572: outside test mode a BUY or SELL of confidence LOW is skipped
LowConfidenceSkips(confidence, testMode) == confidence = "LOW" /\ ~testMode

\* where execute_trade goes after the guards: "done" is a return without any order
Dispatch(signal, confidence, position, timeDiff, lastSide, testMode) ==
    IF CooldownRejects(signal, confidence, timeDiff) THEN "done"
    ELSE IF WhipsawRejects(signal, position, timeDiff, lastSide) THEN "done"
    ELSE IF signal = "CLOSE"
    THEN IF position = NoPosition \/ ~CloseConfident(confidence) \/ testMode \/ position.size <= 0
         THEN "done"
         ELSE "close_order"
    ELSE IF signal = "HOLD" THEN "done"
    ELSE IF LowConfidenceSkips(confidence, testMode) THEN "done"
    ELSE IF testMode THEN "done"
    ELSE "wait_lock"

\* a configuration whose test_mode flag is never read as set
TestModeOff(s) == FALSE

\* config["test_mode"] of the symbol
TestMode(s) == config[s].test_mode

\* no call has just ended: the return of a finished call is its very next step
NoneReturning == \A s \in Symbols : pc[s] # "done"

\* execute_trade is entered with a decision; the position is fetched, the last
\* trade's age is taken and the guards run
Enter(s, signal, confidence, fetched) ==
    LET position == GetCurrentPosition(s, fetched)
        history == tradeHistory[s]
        hasLast == Len(history) >= 1
        timeDiff == IF hasLast THEN clock - history[Len(history)].timestamp ELSE NoAge
        lastSide == IF hasLast THEN history[Len(history)].side ELSE "none"
        testMode == TestMode(s)
    IN  /\ loc' = [loc EXCEPT ![s] =
                      [NoLocals EXCEPT !.signal = signal, !.confidence = confidence,
                                       !.position = position, !.timeDiff = timeDiff,
                                       !.lastSide = lastSide, !.testMode = testMode]]
        /\ pc' = [pc EXCEPT ![s] =
                     Dispatch(signal, confidence, position, timeDiff, lastSide, testMode)]
        /\ calls' = [calls EXCEPT ![s] = << >>]
        /\ cycles' = [cycles EXCEPT ![s] = @ + 1]

\* an execute_trade call with any decision the analysis can hand over
Begin(s) ==
    /\ pc[s] = "idle"
    /\ NoneReturning
    /\ cycles[s] < inputs.cycles[s]
    /\ s \notin served
    /\ \E signal \in Signals, confidence \in Confidences, fetched \in inputs.fetches :
          Enter(s, signal, confidence, fetched)
    /\ served' = served \cup {s}
    /\ UNCHANGED <<clock, lock, config, exPos, exLev, tradeHistory, webPos, inputs, loopVars>>

\* a TradeRecord; trade_history keeps the last 100
TradeRecord(tradeType, side, contracts, leverage) ==
    [timestamp |-> clock, trade_type |-> tradeType, side |-> side,
     contracts |-> contracts, leverage |-> leverage]

AppendBounded(history, record) ==
    LET appended == Append(history, record)
    IN  IF Len(appended) > TradeHistoryLimit THEN Tail(appended) ELSE appended

\* lines 522-530: the record of an executed CLOSE, appended to signal_history as it is
CloseSignalRecord(confidence) ==
    [timestamp |-> clock, signal |-> "CLOSE", confidence |-> confidence, leverage |-> NoLeverage]

\* the CLOSE branch, lines 501-563: a reduce-only order for the whole position,
\* outside the execution lock; after the order the signal and the trade are recorded,
\* the trade under data_lock
CloseOrder(s) ==
    /\ pc[s] = "close_order"
    /\ NoneReturning
    /\ LET position == loc[s].position
           orderSide == OrderSide(position.side)
       IN  \E outcome \in OrderOutcomes(s, orderSide, TRUE) :
              /\ calls' = [calls EXCEPT ![s] =
                              Append(@, OrderCall(s, orderSide, position.size, TRUE, outcome))]
              /\ IF outcome = "ok"
                 THEN /\ dataLock = NoWorker
                      /\ exPos' = [exPos EXCEPT ![s] =
                                      FilledPosition(@, orderSide, position.size, TRUE)]
                      /\ signalHistory' = [signalHistory EXCEPT ![s] =
                             Append(@, CloseSignalRecord(loc[s].confidence))]
                      /\ tradeHistory' = [tradeHistory EXCEPT ![s] =
                             AppendBounded(@, TradeRecord("close_position", position.side,
                                                          position.size, position.leverage))]
                      /\ webPos' = [webPos EXCEPT ![s] = NoPosition]
                 ELSE UNCHANGED <<exPos, signalHistory, tradeHistory, webPos>>
    /\ pc' = [pc EXCEPT ![s] = "done"]
    /\ UNCHANGED <<clock, lock, config, exLev, loc, cycles, served, inputs,
                   stop, mainPc, ctx, accounts, task, timedOut, web, calc, dataLock>>

----------------------------------------------------------------------------
(* execute_trade: the section under order_execution_lock, lines 578-1044 *)

\* an execution section that is entered whoever holds the lock
LockIgnored == TRUE

\* order_execution_lock is free
LockFree == lock = NoWorker

\* with order_execution_lock:
Acquire(s) ==
    /\ pc[s] = "wait_lock"
    /\ NoneReturning
    /\ LockFree
    /\ lock' = s
    /\ pc' = [pc EXCEPT ![s] = "first_balance"]
    /\ UNCHANGED <<clock, config, exPos, exLev, tradeHistory, webPos, loc, calls, cycles, served, inputs, loopVars>>

\* an exit from the section that keeps the lock
LeaveLocked(s) ==
    /\ pc' = [pc EXCEPT ![s] = "done"]
    /\ UNCHANGED lock

\* a return or an exception inside the with block: the lock is released
Leave(s) ==
    /\ pc' = [pc EXCEPT ![s] = "done"]
    /\ lock' = NoWorker

\* safe_float(signal_data.get("leverage"), config["leverage_default"]), line 611
SafeLeverage(leverage) == IF leverage = NoLeverage THEN LeverageDefault ELSE leverage

\* the leverage of the decision handed to execute_trade: that of the analysis when
\* run_symbol_cycle made the call
DecisionLeverages(s) ==
    IF task[s] = NoTask THEN inputs.leverages ELSE {SafeLeverage(task[s].leverage)}

\* lines 584-745: the first balance snapshot, the sizing and the first margin check
FirstBalance(s) ==
    /\ pc[s] = "first_balance"
    /\ NoneReturning
    /\ \/ \* fetch_balance raises
          /\ Leave(s)
          /\ UNCHANGED loc
       \/ \E resp \in inputs.responses, leverage \in DecisionLeverages(s), hint \in inputs.hints :
             LET usdt == ParseUsdtBalance(resp)
                 usable == UsableMarginNum(resp, usdt)
                 sized == FirstCheck(s, loc[s].confidence, leverage, hint, usable)
             IN  IF usdt <= 0 \/ ~sized.ok
                 THEN /\ Leave(s)
                      /\ UNCHANGED loc
                 ELSE /\ loc' = [loc EXCEPT ![s].leverage = leverage,
                                            ![s].maxUsable = usable,
                                            ![s].contracts = sized.contracts,
                                            ![s].balance = resp]
                      /\ pc' = [pc EXCEPT ![s] = "second_balance"]
                      /\ UNCHANGED lock
    /\ UNCHANGED <<clock, config, exPos, exLev, tradeHistory, webPos, calls, cycles, served, inputs, loopVars>>

\* lines 755-828: the fresh snapshot after the settling delay and the second check;
\* fresh_balance["USDT"]["free"] raises when the response has no USDT entry
SecondBalance(s) ==
    /\ pc[s] = "second_balance"
    /\ NoneReturning
    /\ \/ \* fetch_balance raises
          /\ Leave(s)
          /\ UNCHANGED loc
       \/ \E resp \in inputs.responses :
             LET fresh == UsableMarginNum(resp, resp.free)
                 sized == SecondCheck(s, loc[s].contracts, loc[s].leverage, fresh)
             IN  IF ~resp.hasUSDT
                 THEN /\ Leave(s)
                      /\ loc' = [loc EXCEPT ![s].fresh_balance = resp,
                                            ![s].error = "KeyError"]
                 ELSE IF ~sized.ok
                 THEN /\ Leave(s)
                      /\ UNCHANGED loc
                 ELSE /\ loc' = [loc EXCEPT ![s].freshMax = fresh,
                                            ![s].checked = TRUE,
                                            ![s].contracts = sized.contracts,
                                            ![s].fresh_balance = resp]
                      /\ pc' = [pc EXCEPT ![s] = "set_leverage"]
                      /\ UNCHANGED lock
    /\ UNCHANGED <<clock, config, exPos, exLev, tradeHistory, webPos, calls, cycles, served, inputs, loopVars>>

\* current_leverage, line 837
CurrentLeverage(s) ==
    IF loc[s].position # NoPosition THEN loc[s].position.leverage ELSE LeverageDefault

\* lines 836-847: set_leverage when the decision's leverage differs; on failure the
\* current leverage is used
SetLeverage(s) ==
    /\ pc[s] = "set_leverage"
    /\ NoneReturning
    /\ IF loc[s].leverage # CurrentLeverage(s)
       THEN \E ok \in BOOLEAN :
               /\ calls' = [calls EXCEPT ![s] = Append(@, LeverageCall(s, loc[s].leverage, ok))]
               /\ exLev' = IF ok THEN [exLev EXCEPT ![s] = loc[s].leverage] ELSE exLev
               /\ loc' = IF ok THEN loc ELSE [loc EXCEPT ![s].leverage = CurrentLeverage(s)]
       ELSE UNCHANGED <<calls, exLev, loc>>
    /\ pc' = [pc EXCEPT ![s] = "attempt"]
    /\ UNCHANGED <<clock, lock, config, exPos, tradeHistory, webPos, cycles, served, inputs, loopVars>>

\* an add that is not held to the position cap
AnyPositionSize(s) == TRUE

\* new_total_value <= max_position_value, lines 873-884
WithinPositionCap(s) ==
    (ContractsToBase(s, loc[s].position.size) + ContractsToBase(s, loc[s].contracts))
        * Price(s) * MarginDen <= loc[s].maxUsable * loc[s].leverage

\* a classification that takes every BUY and SELL for the opening of a position
TradeKindAlwaysOpen(s) == IF loc[s].signal = "BUY" THEN "open_long" ELSE "open_short"

\* the branch of lines 857-951 the attempt takes: the trade type, or "none" when the
\* same side is held and nothing is added
TradeKind(s) ==
    LET newSide == IF loc[s].signal = "BUY" THEN "long" ELSE "short"
        held == loc[s].position
    IN  IF held # NoPosition /\ held.side = Opposite(newSide)
        THEN IF newSide = "long" THEN "reverse_short_to_long" ELSE "reverse_long_to_short"
        ELSE IF held # NoPosition /\ held.side = newSide
        THEN IF config[s].enable_add_position /\ loc[s].confidence = "HIGH"
                /\ WithinPositionCap(s)
             THEN IF newSide = "long" THEN "add_long" ELSE "add_short"
             ELSE "none"
        ELSE IF newSide = "long" THEN "open_long" ELSE "open_short"

IsReversal(kind) == kind \in {"reverse_short_to_long", "reverse_long_to_short"}

\* except clauses that halve the quantity after every kind of error
AfterFailureHalving(s, outcome) ==
    LET halved == AdjustContractQuantity(s, loc[s].contracts * HalvingPct, 100)
    IN  IF loc[s].attempt >= MaxRetries - 1 THEN <<"done", loc[s].contracts, loc[s].attempt>>
        ELSE IF MinContracts(s) > 0 /\ halved < MinContracts(s)
        THEN <<"done", halved, loc[s].attempt>>
        ELSE <<"attempt", halved, loc[s].attempt + 1>>

\* the except clauses of lines 956-984: <<next pc, contracts, attempt>>
AfterFailure(s, outcome) ==
    LET halved == AdjustContractQuantity(s, loc[s].contracts * HalvingPct, 100)
    IN  IF loc[s].attempt >= MaxRetries - 1 THEN <<"done", loc[s].contracts, loc[s].attempt>>
        ELSE IF outcome = "insufficient"
        THEN IF MinContracts(s) > 0 /\ halved < MinContracts(s)
             THEN <<"done", halved, loc[s].attempt>>
             ELSE <<"attempt", halved, loc[s].attempt + 1>>
        ELSE <<"attempt", loc[s].contracts, loc[s].attempt + 1>>

\* a create_market_order call raised: retry or give up
Failed(s, outcome) ==
    LET next == AfterFailure(s, outcome)
    IN  /\ pc' = [pc EXCEPT ![s] = next[1]]
        /\ loc' = [loc EXCEPT ![s].contracts = next[2], ![s].attempt = next[3],
                              ![s].tradeType = TradeKind(s)]
        /\ lock' = IF next[1] = "done" THEN NoWorker ELSE lock

\* a reversal that goes on to its open leg whatever the close leg returned
AfterCloseLegAlways(outcome) == "open_leg"

\* the pc after the close leg of a reversal
AfterCloseLeg(outcome) == IF outcome = "ok" THEN "open_leg" ELSE "failed"

\* lines 866 / 914: the reduce-only close of the held size, first leg of a reversal
CloseLeg(s) ==
    /\ pc[s] = "attempt"
    /\ NoneReturning
    /\ IsReversal(TradeKind(s))
    /\ LET orderSide == OrderSide(loc[s].position.side)
           size == loc[s].position.size
       IN  \E outcome \in OrderOutcomes(s, orderSide, TRUE) :
              /\ calls' = [calls EXCEPT ![s] = Append(@, OrderCall(s, orderSide, size, TRUE, outcome))]
              /\ exPos' = IF outcome = "ok"
                          THEN [exPos EXCEPT ![s] = FilledPosition(@, orderSide, size, TRUE)]
                          ELSE exPos
              /\ IF AfterCloseLeg(outcome) = "open_leg"
                 THEN /\ pc' = [pc EXCEPT ![s] = "open_leg"]
                      /\ loc' = [loc EXCEPT ![s].tradeType = TradeKind(s)]
                      /\ UNCHANGED lock
                 ELSE Failed(s, outcome)
    /\ UNCHANGED <<clock, config, exLev, tradeHistory, webPos, cycles, served, inputs, loopVars>>

\* lines 869, 891, 903, 917, 939, 951: the order that opens or adds exposure
OpenOrder(s) ==
    /\ NoneReturning
    /\ \/ pc[s] = "open_leg"
       \/ pc[s] = "attempt" /\ ~IsReversal(TradeKind(s)) /\ TradeKind(s) # "none"
    /\ LET orderSide == IF loc[s].signal = "BUY" THEN "buy" ELSE "sell"
       IN  \E outcome \in OrderOutcomes(s, orderSide, FALSE) :
              /\ calls' = [calls EXCEPT ![s] =
                              Append(@, OrderCall(s, orderSide, loc[s].contracts, FALSE, outcome))]
              /\ IF outcome = "ok"
                 THEN /\ exPos' = [exPos EXCEPT ![s] =
                                      FilledPosition(@, orderSide, loc[s].contracts, FALSE)]
                      /\ pc' = [pc EXCEPT ![s] = "record"]
                      /\ loc' = [loc EXCEPT ![s].tradeType = TradeKind(s)]
                      /\ UNCHANGED lock
                 ELSE /\ UNCHANGED exPos
                      /\ Failed(s, outcome)
    /\ UNCHANGED <<clock, config, exLev, tradeHistory, webPos, cycles, served, inputs, loopVars>>

\* lines 894-898, 892-893: the same side is held and nothing is added
SkipSameSide(s) ==
    /\ pc[s] = "attempt"
    /\ NoneReturning
    /\ TradeKind(s) = "none"
    /\ pc' = [pc EXCEPT ![s] = "record"]
    /\ UNCHANGED <<clock, lock, config, exPos, exLev, tradeHistory, webPos, loc, calls, cycles, served, inputs, loopVars>>

\* side of a TradeRecord, lines 1015-1019
RecordSide(tradeType) ==
    IF tradeType \in {"open_long", "add_long", "reverse_short_to_long"} THEN "long"
    ELSE IF tradeType \in {"open_short", "add_short", "reverse_long_to_short"} THEN "short"
    ELSE "neutral"

\* lines 986-1044: the position is re-read, the TradeRecord appended under data_lock,
\* the execution lock released
Record(s) ==
    /\ pc[s] = "record"
    /\ NoneReturning
    /\ \E fetched \in inputs.fetches :
          IF loc[s].tradeType # "none"
          THEN /\ dataLock = NoWorker
               /\ tradeHistory' = [tradeHistory EXCEPT ![s] =
                      AppendBounded(@, TradeRecord(loc[s].tradeType, RecordSide(loc[s].tradeType),
                                                   loc[s].contracts, loc[s].leverage))]
               /\ webPos' = [webPos EXCEPT ![s] = GetCurrentPosition(s, fetched)]
          ELSE UNCHANGED <<tradeHistory, webPos>>
    /\ Leave(s)
    /\ UNCHANGED <<clock, config, exPos, exLev, loc, calls, cycles, served, inputs, loopVars>>

\* execute_trade has returned; the next cycle of the symbol may start
Return(s) ==
    /\ pc[s] = "done"
    /\ pc' = [pc EXCEPT ![s] = "idle"]
    /\ loc' = [loc EXCEPT ![s] = NoLocals]
    /\ calls' = [calls EXCEPT ![s] = << >>]
    /\ UNCHANGED <<clock, lock, config, exPos, exLev, tradeHistory, webPos, cycles, served, inputs, loopVars>>

\* the main loop: once the tasks of a cycle have ended it waits for the next period
\* and submits one task per symbol again
\* (an execute_trade call lasts seconds, so the clock of this resolution stands still
\* while one runs)
Tick ==
    /\ clock < inputs.horizon
    /\ \A s \in Symbols : pc[s] = "idle"
    /\ clock' = clock + TradeIntervalMinutes * 60
    /\ served' = {}
    /\ UNCHANGED <<lock, config, exPos, exLev, tradeHistory, webPos, pc, loc, calls, cycles, inputs, loopVars>>

Next ==
    \/ Tick
    \/ \E s \in Symbols :
          \/ Begin(s)
          \/ CloseOrder(s)
          \/ Acquire(s)
          \/ FirstBalance(s)
          \/ SecondBalance(s)
          \/ SetLeverage(s)
          \/ CloseLeg(s)
          \/ OpenOrder(s)
          \/ SkipSameSide(s)
          \/ Record(s)
          \/ Return(s)

Spec == Init /\ [][Next]_vars

SpecSizing == InitSizing /\ [][Next]_vars

----------------------------------------------------------------------------
(* analyze_with_llm: the sizing matrix and the reply of the decision layer *)

\* leverage_list of the sizing matrix: leverage_min, leverage_default, leverage_max
LeverageList == {LeverageMin, LeverageDefault, LeverageMax}

\* available_balance, lines 127-151: the free amount of the USDT entry, else availBal
\* of the details entry; 1000 when that is not positive
AnalysisBalance(resp) ==
    LET parsed == IF resp.hasUSDT THEN resp.free
                  ELSE IF resp.hasDetails THEN resp.availBal
                  ELSE 0
    IN  IF parsed <= 0 THEN DefaultAnalysisBalance ELSE parsed

\* adjusted_contracts of one (confidence, leverage) cell: the share of 80% of the
\* balance, floored at the minimum and rounded up to the step
MatrixContracts(symbol, confidence, leverage, balance) ==
    LET n == UsableSharePct * balance * ConfidenceRatioPct(confidence) * leverage
        d == 100 * 100 * Price(symbol) * ContractSize(symbol)
    IN  IF n < SpecMinContracts(symbol) * d
        THEN AdjustContractQuantity(symbol, SpecMinContracts(symbol), 1)
        ELSE AdjustContractQuantity(symbol, n, d)

\* meets_min and meets_margin of the cell
Feasible(symbol, confidence, leverage, balance) ==
    LET contracts == MatrixContracts(symbol, confidence, leverage, balance)
    IN  /\ contracts >= SpecMinContracts(symbol)
        /\ Price(symbol) * ContractsToBase(symbol, contracts) * 100
               <= UsableSharePct * balance * leverage

\* can_trade: some cell of the matrix is feasible
CanTrade(symbol, balance) ==
    \E confidence \in Confidences, leverage \in LeverageList :
        Feasible(symbol, confidence, leverage, balance)

\* an analysis that asks the decision layer whatever the matrix says
ConsultsAlways(canTrade) == FALSE

\* line 212: without a feasible cell the decision layer is not consulted
SkipsDecisionLayer(canTrade) == ~canTrade

\* the fields a decision must carry, line 336
RequiredFields == {"signal", "reason", "stop_loss", "take_profit", "confidence"}

\* replies of chat.completions.create: the call raises, returns nothing, returns no
\* choices, or returns a text that is empty, prose without a JSON object, a JSON
\* object that does not parse, or a JSON object with some of the fields
MalformedReplies ==
    { [NoReply EXCEPT !.raised = TRUE],
      NoReply,
      [NoReply EXCEPT !.present = TRUE],
      [NoReply EXCEPT !.present = TRUE, !.choices = TRUE, !.text = "empty"],
      [NoReply EXCEPT !.present = TRUE, !.choices = TRUE, !.text = "prose",
                      !.signal = "BUY", !.confidence = "HIGH"],
      [NoReply EXCEPT !.present = TRUE, !.choices = TRUE, !.text = "broken",
                      !.fields = RequiredFields, !.signal = "BUY", !.confidence = "HIGH"],
      [NoReply EXCEPT !.present = TRUE, !.choices = TRUE, !.text = "json",
                      !.fields = RequiredFields \ {"reason"},
                      !.signal = "SELL", !.confidence = "HIGH", !.leverage = 3],
      [NoReply EXCEPT !.present = TRUE, !.choices = TRUE, !.text = "json",
                      !.fields = RequiredFields \ {"signal"}, !.confidence = "HIGH"] }

\* a reply that carries a whole decision
DecisionReply(signal, confidence, leverage) ==
    [NoReply EXCEPT !.present = TRUE, !.choices = TRUE, !.text = "json",
                    !.fields = RequiredFields, !.signal = signal,
                    !.confidence = confidence, !.leverage = leverage]

\* the decisions the decision layer can reply with: every signal and confidence, the
\* leverage left out, not a number, below leverage_min or above leverage_max
DecisionReplies ==
    { DecisionReply(signal, confidence, leverage) :
        signal \in Signals, confidence \in Confidences,
        leverage \in {NoLeverage, NotANumber, 0, 5} }

\* create_fallback_signal
FallbackSignal ==
    [signal |-> "HOLD", confidence |-> "LOW", leverage |-> NoLeverage,
     fields |-> RequiredFields, fallback |-> TRUE]

\* lines 324-333: the text between the first "{" and the last "}" handed to
\* safe_json_parse; the fallback when there is no such text or it does not parse
ExtractDecision(reply) ==
    IF reply.text = "json"
    THEN [signal |-> reply.signal, confidence |-> reply.confidence,
          leverage |-> reply.leverage, fields |-> reply.fields, fallback |-> FALSE]
    ELSE FallbackSignal

\* a field check that accepts every parsed object
AnyFieldsAccepted(decision) == TRUE

\* line 337: all required fields are in the parsed object
HasRequiredFields(decision) == RequiredFields \subseteq decision.fields

\* a validation that supplies the default and leaves every number as it is
DefaultsOnly(leverage) ==
    IF leverage \in {NoLeverage, NotANumber} THEN LeverageDefault ELSE leverage

\* validate_and_correct_leverage: the default when the field is absent or int() fails
\* on it, else the integer clamped to the configured range
ValidateLeverage(leverage) ==
    IF leverage \in {NoLeverage, NotANumber} THEN LeverageDefault
    ELSE Max(LeverageMin, Min(leverage, LeverageMax))

\* lines 285-384: what analyze_with_llm returns for a reply, and whether it appended
\* the signal to signal_history on the way
ParseDecision(reply) ==
    IF reply.raised
    THEN [signal |-> FallbackSignal.signal, confidence |-> FallbackSignal.confidence,
          leverage |-> NoLeverage, fallback |-> TRUE, recorded |-> TRUE]
    ELSE IF ~reply.present \/ ~reply.choices \/ reply.text = "empty"
    THEN [signal |-> FallbackSignal.signal, confidence |-> FallbackSignal.confidence,
          leverage |-> NoLeverage, fallback |-> TRUE, recorded |-> FALSE]
    ELSE LET extracted == ExtractDecision(reply)
             checked == IF HasRequiredFields(extracted) THEN extracted ELSE FallbackSignal
         IN  [signal |-> checked.signal, confidence |-> checked.confidence,
              leverage |-> ValidateLeverage(checked.leverage),
              fallback |-> checked.fallback, recorded |-> TRUE]

\* lines 219-234: the HOLD signal of an account that cannot afford the minimum
InsufficientSignal ==
    [signal |-> "HOLD", confidence |-> "LOW", leverage |-> LeverageDefault,
     fallback |-> FALSE, recorded |-> TRUE]

\* append_signal_record; signal_history keeps the last 200
SignalRecord(decision) ==
    [timestamp |-> clock, signal |-> decision.signal, confidence |-> decision.confidence,
     leverage |-> decision.leverage]

AppendSignal(history, record) ==
    LET appended == Append(history, record)
    IN  IF Len(appended) > SignalHistoryLimit THEN Tail(appended) ELSE appended

----------------------------------------------------------------------------
(* run_symbol_cycle, lines 1150-1242 *)

\* a run_symbol_cycle that needs order_execution_lock free at every step
WaitsForLockThroughout(s) == lock \notin {NoWorker, s}

\* lines 1150-1234: market data, the stop-loss check, the analysis and the web_data
\* update take no order_execution_lock; the task waits for it nowhere before
\* execute_trade
WaitsBeforeExecution(s) == FALSE

\* the task starts with ensure_symbol_state, which takes data_lock for its look at
\* web_data: without price data the task ends; when the held position hit its stop
\* loss or take profit a forced CLOSE at confidence HIGH goes to execute_trade and
\* the analysis is skipped
StartCycle(s) ==
    /\ pc[s] = "submitted"
    /\ NoneReturning
    /\ ~WaitsBeforeExecution(s)
    /\ dataLock = NoWorker
    /\ \/ /\ pc' = [pc EXCEPT ![s] = "idle"]
          /\ UNCHANGED <<loc, calls, cycles>>
       \/ \E fetched \in inputs.fetches, hit \in inputs.stops :
             IF GetCurrentPosition(s, fetched) # NoPosition /\ hit
             THEN \E again \in inputs.fetches : Enter(s, "CLOSE", "HIGH", again)
             ELSE /\ pc' = [pc EXCEPT ![s] = "analyze"]
                  /\ UNCHANGED <<loc, calls, cycles>>
    /\ UNCHANGED <<clock, lock, config, exPos, exLev, tradeHistory, webPos, served, inputs, loopVars>>

\* analyze_with_llm, line 1195
Analyze(s) ==
    /\ pc[s] = "analyze"
    /\ NoneReturning
    /\ ~WaitsBeforeExecution(s)
    /\ \E balance \in inputs.balances, reply \in inputs.replies :
          LET skipped == SkipsDecisionLayer(CanTrade(s, balance))
              decision == IF skipped THEN InsufficientSignal ELSE ParseDecision(reply)
          IN  /\ task' = [task EXCEPT ![s] =
                            [reply |-> IF skipped THEN NoReply ELSE reply,
                             llmCalled |-> ~skipped,
                             balance |-> balance,
                             signal |-> decision.signal,
                             confidence |-> decision.confidence,
                             leverage |-> decision.leverage,
                             insufficient |-> skipped,
                             fallback |-> decision.fallback,
                             recorded |-> decision.recorded]]
              /\ signalHistory' = IF decision.recorded
                                  THEN [signalHistory EXCEPT ![s] =
                                           AppendSignal(@, SignalRecord(decision))]
                                  ELSE signalHistory
    /\ pc' = [pc EXCEPT ![s] = "publish"]
    /\ UNCHANGED <<clock, lock, config, exPos, exLev, tradeHistory, webPos, loc, calls, cycles, served,
                   inputs, stop, mainPc, ctx, accounts, timedOut, web, calc, dataLock>>

\* a web_data update that leaves its with block without releasing data_lock
KeepData(s) == UNCHANGED dataLock

\* the end of a with data_lock block
ReleaseData(s) == dataLock' = NoWorker

\* line 1198: with data_lock, entered when no thread holds it
AcquireData(s) ==
    /\ pc[s] = "publish"
    /\ NoneReturning
    /\ ~WaitsBeforeExecution(s)
    /\ dataLock = NoWorker
    /\ dataLock' = s
    /\ pc' = [pc EXCEPT ![s] = "publishing"]
    /\ UNCHANGED <<clock, lock, config, exPos, exLev, tradeHistory, webPos, loc, calls, cycles, served,
                   inputs, stop, mainPc, ctx, accounts, signalHistory, task, timedOut, web, calc>>

\* lines 1199-1228: under data_lock the position is fetched and web_data updated
Publish(s) ==
    /\ pc[s] = "publishing"
    /\ NoneReturning
    /\ ~WaitsBeforeExecution(s)
    /\ \E fetched \in inputs.fetches :
          webPos' = [webPos EXCEPT ![s] = GetCurrentPosition(s, fetched)]
    /\ ReleaseData(s)
    /\ pc' = [pc EXCEPT ![s] = "decided"]
    /\ UNCHANGED <<clock, lock, config, exPos, exLev, tradeHistory, loc, calls, cycles, served,
                   inputs, stop, mainPc, ctx, accounts, signalHistory, task, timedOut, web, calc>>

\* line 1234: execute_trade with the decision of the analysis
Execute(s) ==
    /\ pc[s] = "decided"
    /\ NoneReturning
    /\ ~WaitsBeforeExecution(s)
    /\ \E fetched \in inputs.fetches : Enter(s, task[s].signal, task[s].confidence, fetched)
    /\ UNCHANGED <<clock, lock, config, exPos, exLev, tradeHistory, webPos, served, inputs, loopVars>>

----------------------------------------------------------------------------
(* main and run_all_symbols_parallel, lines 1245-1347 *)

\* a loop that never sees the stop flag
StopIgnored == FALSE

\* STOP_EVENT.is_set()
StopRequested == stop

\* the symbol the submission loop of the batch is at, or "none" at its end
NextPending ==
    LET waiting == {i \in 1..Len(SymbolOrder) :
                       SymbolOrder[i] \in inputs.symbols /\ SymbolOrder[i] \notin served}
    IN  IF waiting = {} THEN "none"
        ELSE SymbolOrder[CHOOSE i \in waiting : \A j \in waiting : i <= j]

\* the account and web_data the globals point to
LiveAccount ==
    [exPos |-> exPos, exLev |-> exLev, tradeHistory |-> tradeHistory, webPos |-> webPos,
     signalHistory |-> signalHistory]

\* request_stop_trading_bot, called by the stop endpoint while the bot thread is alive
RequestStop ==
    /\ ~stop
    /\ mainPc # "exited"
    /\ NoneReturning
    /\ stop' = TRUE
    /\ UNCHANGED <<clock, lock, config, exPos, exLev, tradeHistory, webPos, pc, loc, calls, cycles,
                   served, inputs, mainPc, ctx, accounts, signalHistory, task, timedOut, web, calc, dataLock>>

\* line 1318: the check at the head of the loop
LoopTop ==
    /\ mainPc = "top"
    /\ NoneReturning
    /\ mainPc' = IF StopRequested THEN "exited" ELSE "waiting"
    /\ UNCHANGED <<clock, lock, config, exPos, exLev, tradeHistory, webPos, pc, loc, calls, cycles,
                   served, inputs, stop, ctx, accounts, signalHistory, task, timedOut, web, calc, dataLock>>

\* lines 1322-1330: the interruptible sleep to the next period and the check after it
WaitPeriod ==
    /\ mainPc = "waiting"
    /\ NoneReturning
    /\ IF StopRequested
       THEN /\ mainPc' = "exited"
            /\ UNCHANGED <<clock, ctx>>
       ELSE /\ clock < inputs.horizon
            /\ clock' = clock + TradeIntervalMinutes * 60
            /\ ctx' = 0
            /\ mainPc' = "contexts"
    /\ UNCHANGED <<lock, config, exPos, exLev, tradeHistory, webPos, pc, loc, calls, cycles,
                   served, inputs, stop, accounts, signalHistory, task, timedOut, web, calc, dataLock>>

\* lines 1331-1336: the next model context is activated, unless the stop flag is set
\* or every context had its batch
NextContext ==
    /\ mainPc = "contexts"
    /\ NoneReturning
    /\ IF ctx >= inputs.models \/ StopRequested
       THEN /\ mainPc' = "after"
            /\ UNCHANGED <<ctx, exPos, exLev, tradeHistory, webPos, signalHistory, served, timedOut>>
       ELSE /\ ctx' = ctx + 1
            /\ exPos' = accounts[ctx + 1].exPos
            /\ exLev' = accounts[ctx + 1].exLev
            /\ tradeHistory' = accounts[ctx + 1].tradeHistory
            /\ webPos' = accounts[ctx + 1].webPos
            /\ signalHistory' = accounts[ctx + 1].signalHistory
            /\ served' = {}
            /\ timedOut' = {}
            /\ mainPc' = "submitting"
    /\ UNCHANGED <<clock, lock, config, pc, loc, calls, cycles, inputs, stop, accounts, task, web, calc, dataLock>>

\* lines 1254-1259: one more run_symbol_cycle task goes to the executor; the flag is
\* read at line 1256 and the submit of line 1259 follows it at once, as one step
SubmitTask(s) ==
    /\ mainPc = "submitting"
    /\ NoneReturning
    /\ ~StopRequested
    /\ s = NextPending
    /\ pc[s] = "idle"
    /\ pc' = [pc EXCEPT ![s] = "submitted"]
    /\ task' = [task EXCEPT ![s] = NoTask]
    /\ served' = served \cup {s}
    /\ UNCHANGED <<clock, lock, config, exPos, exLev, tradeHistory, webPos, loc, calls, cycles,
                   inputs, stop, mainPc, ctx, accounts, signalHistory, timedOut, web, calc, dataLock>>

\* lines 1256-1258 and the end of the for loop: the submissions of the batch are over
EndSubmission ==
    /\ mainPc = "submitting"
    /\ NoneReturning
    /\ StopRequested \/ NextPending = "none"
    /\ mainPc' = "awaiting"
    /\ UNCHANGED <<clock, lock, config, exPos, exLev, tradeHistory, webPos, pc, loc, calls, cycles,
                   served, inputs, stop, ctx, accounts, signalHistory, task, timedOut, web, calc, dataLock>>

\* lines 1265-1273 and 1337-1338: the results are awaited and the executor, leaving
\* its with block, joins every task it was given; the context is left
FinishBatch ==
    /\ mainPc = "awaiting"
    /\ \A s \in Symbols : pc[s] = "idle"
    /\ accounts' = [accounts EXCEPT ![ctx] = LiveAccount]
    /\ mainPc' = "contexts"
    /\ UNCHANGED <<clock, lock, config, exPos, exLev, tradeHistory, webPos, pc, loc, calls, cycles,
                   served, inputs, stop, ctx, signalHistory, task, timedOut, web, calc, dataLock>>

\* lines 1266-1273: future.result(timeout=60) of the next awaited task raises after
\* its 60 seconds; the exception is printed and the loop goes to the next future, the
\* task itself keeps running in its executor thread
TimeOut(s) ==
    /\ mainPc = "awaiting"
    /\ NoneReturning
    /\ ~StopRequested
    /\ s \in served \ timedOut
    /\ pc[s] # "idle"
    /\ \A i, j \in 1..Len(SymbolOrder) :
          (SymbolOrder[j] = s /\ i < j /\ SymbolOrder[i] \in served)
             => (pc[SymbolOrder[i]] = "idle" \/ SymbolOrder[i] \in timedOut)
    /\ timedOut' = timedOut \cup {s}
    /\ UNCHANGED <<clock, lock, config, exPos, exLev, tradeHistory, webPos, pc, loc, calls, cycles,
                   served, inputs, stop, mainPc, ctx, accounts, signalHistory, task, web, calc, dataLock>>

\* lines 1341-1347: the check after the contexts, then the interruptible sleep
AfterContexts ==
    /\ mainPc = "after"
    /\ NoneReturning
    /\ mainPc' = IF StopRequested THEN "exited" ELSE "top"
    /\ UNCHANGED <<clock, lock, config, exPos, exLev, tradeHistory, webPos, pc, loc, calls, cycles,
                   served, inputs, stop, ctx, accounts, signalHistory, task, timedOut, web, calc, dataLock>>

\* a step of the bot thread
MainStep ==
    \/ LoopTop
    \/ WaitPeriod
    \/ NextContext
    \/ \E s \in Symbols : SubmitTask(s)
    \/ EndSubmission
    \/ \E s \in Symbols : TimeOut(s)
    \/ FinishBatch
    \/ AfterContexts

\* a step of the executor thread that runs the task of symbol s
TaskStep(s) ==
    \/ StartCycle(s)
    \/ Analyze(s)
    \/ AcquireData(s)
    \/ Publish(s)
    \/ Execute(s)
    \/ CloseOrder(s)
    \/ Acquire(s)
    \/ FirstBalance(s)
    \/ SecondBalance(s)
    \/ SetLeverage(s)
    \/ CloseLeg(s)
    \/ OpenOrder(s)
    \/ SkipSameSide(s)
    \/ Record(s)
    \/ Return(s)

NextCycle ==
    \/ RequestStop
    \/ MainStep
    \/ \E s \in Symbols : TaskStep(s)

\* one period of a bot configured with the symbols and the number of model contexts
CycleInputs(symbols, models, balances, replies) ==
    [responses |-> {r \in BalanceResponses : r.hasUSDT /\ r.hasDetails /\ r.free > 0 /\ r.imr = 0},
     leverages |-> {LeverageDefault},
     hints |-> {h \in SizeHints : h.kind = "none"},
     fetches |-> {TRUE},
     cycles |-> [s \in Symbols |-> 0],
     horizon |-> MaxPeriods * TradeIntervalMinutes * 60,
     symbols |-> symbols,
     models |-> models,
     balances |-> balances,
     replies |-> replies,
     stops |-> BOOLEAN]

\* the balances the analysis may see: one that affords no cell of the matrix for
\* either symbol, one that affords them all
AnalysisBalances == {AnalysisBalance(r) : r \in BalanceResponses} \cup {LowBalance}

InitCycle ==
    /\ Started
    /\ config \in ConfigChoices
    /\ exPos = FlatPositions
    /\ accounts \in { [c \in Contexts |-> Account(IF c = 1 THEN held ELSE FlatPositions)] :
                        held \in InitialPositions }
    /\ inputs \in { CycleInputs({symbol}, 1, AnalysisBalances, MalformedReplies \cup DecisionReplies) :
                        symbol \in Symbols }

SpecCycle == InitCycle /\ [][NextCycle]_vars

\* both symbols and both model contexts; the account of the first context holds a
\* long BTC and a short ETH position, and the decision layer replies SELL
InitStop ==
    /\ Started
    /\ config = ShippedConfig
    /\ exPos = FlatPositions
    /\ accounts = [c \in Contexts |->
                     Account(IF c = 1
                             THEN [s \in Symbols |->
                                      [side |-> IF s = "BTC" THEN "long" ELSE "short", size |-> 4]]
                             ELSE FlatPositions)]
    /\ inputs = CycleInputs(Symbols, Len(ModelOrder), {DefaultAnalysisBalance},
                            {DecisionReply("SELL", "HIGH", NoLeverage)})

\* the bot thread and the executor threads are scheduled, and exchange calls return
SpecStop ==
    /\ InitStop
    /\ [][NextCycle]_vars
    /\ WF_vars(MainStep)
    /\ \A s \in Symbols : WF_vars(TaskStep(s))

----------------------------------------------------------------------------
(* Observations on the exchange calls of the running execute_trade call *)

\* a create_market_order call
IsOrder(c) == c.op = "order"

\* a create_market_order call that opens or adds exposure (no reduceOnly)
IsOpening(c) == c.op = "order" /\ ~c.reduceOnly

\* the create_market_order calls of the call in progress, in order
Orders(s) == SelectSeq(calls[s], IsOrder)

\* the worker is inside the with order_execution_lock block
InSection(s) ==
    pc[s] \in {"first_balance", "second_balance", "set_leverage", "attempt", "open_leg", "record"}

\* the worker is between its second balance fetch and its order submission
BeforeSubmission(s) == pc[s] \in {"set_leverage", "attempt", "open_leg"}

\* the signal asks for the side opposite to the position fetched on entry
AgainstHeld(s) ==
    \/ loc[s].signal = "BUY" /\ loc[s].position.side = "short"
    \/ loc[s].signal = "SELL" /\ loc[s].position.side = "long"

\* the call is a reduce-only order of the whole fetched position
ClosesWholePosition(s, c) ==
    /\ IsOrder(c)
    /\ c.reduceOnly
    /\ c.side = OrderSide(loc[s].position.side)
    /\ c.qty = loc[s].position.size

----------------------------------------------------------------------------
(* Properties *)

\* C1: every opening order (open, add, open leg of a reversal) is submitted with a
\* required margin price * quantity_base / leverage that is at most the usable margin
\* of the second balance snapshot, at the leverage the order is placed with.
C1_OpeningOrderFitsFreshMargin ==
    \A s \in Symbols : \A i \in 1..Len(calls[s]) :
        IsOpening(calls[s][i]) =>
            ~ExceedsMargin(s, calls[s][i].qty, calls[s][i].leverage, loc[s].freshMax)

\* C2: when the usable margin of the first snapshot is <= 0, a BUY or SELL makes no
\* create_market_order call.
C2_NoOrderWithoutUsableMargin ==
    \A s \in Symbols :
        (loc[s].signal \in {"BUY", "SELL"} /\ loc[s].leverage > 0 /\ loc[s].maxUsable <= 0)
            => Len(Orders(s)) = 0

\* C3: every quantity passed to create_market_order for an open, an add or an open leg
\* is at least min_contracts and a whole multiple of the step, on the first attempt and
\* on the retry after halving.
C3_OpeningQuantityNormalized ==
    \A s \in Symbols : \A i \in 1..Len(calls[s]) :
        IsOpening(calls[s][i]) =>
            /\ calls[s][i].qty >= MinContracts(s)
            /\ calls[s][i].qty % AmountStep(s) = 0

\* C3, reached: on a symbol whose step is above one contract, an opening order failed
\* for insufficient funds and the retry went out with a smaller, halved quantity.
C3_HalvedRetrySubmitted ==
    \E s \in Symbols : \E i, j \in 1..Len(calls[s]) :
        /\ AmountStep(s) > 1
        /\ i < j
        /\ IsOpening(calls[s][i]) /\ calls[s][i].attempt = 0
        /\ IsOpening(calls[s][j]) /\ calls[s][j].attempt = 1
        /\ calls[s][j].qty < calls[s][i].qty

\* C4: every create_market_order call of execute_trade, the CLOSE order included, is
\* made while the calling worker holds the execution lock.
C4_EveryOrderUnderLock ==
    \A s \in Symbols : \A i \in 1..Len(calls[s]) :
        IsOrder(calls[s][i]) => calls[s][i].locked

\* C5: at most one worker is inside the BUY/SELL section (first balance fetch to the
\* append of the TradeRecord), the worker inside holds the lock, and every open, add or
\* reversal order was submitted by the holder of the lock, so none is submitted by
\* another symbol between a worker's second balance fetch and its order.
C5_OneWorkerInSection ==
    /\ \A s, t \in Symbols : (InSection(s) /\ InSection(t)) => s = t
    /\ \A s \in Symbols : InSection(s) => lock = s
    /\ \A s \in Symbols : \A i \in 1..Len(calls[s]) :
          (IsOrder(calls[s][i]) /\ loc[s].signal \in {"BUY", "SELL"}) => calls[s][i].locked

\* C5, reached: one worker is between its second balance fetch and its order while
\* the other worker waits for the lock.
C5_OtherWorkerWaits ==
    \E s, t \in Symbols :
        /\ s # t
        /\ BeforeSubmission(s)
        /\ loc[s].checked
        /\ pc[t] = "wait_lock"

\* C6: in a reversal the open order of an attempt comes right after a reduce-only
\* close of the whole held size that succeeded in the same attempt, and the held side
\* is gone from the exchange when the open order is submitted.
C6_OpenLegAfterSuccessfulClose ==
    \A s \in Symbols : \A i \in 1..Len(calls[s]) :
        (IsOpening(calls[s][i]) /\ AgainstHeld(s)) =>
            /\ i > 1
            /\ ClosesWholePosition(s, calls[s][i - 1])
            /\ calls[s][i - 1].ok
            /\ calls[s][i - 1].attempt = calls[s][i].attempt
            /\ calls[s][i].heldBefore # loc[s].position.side

\* C6, reached: the close leg of a reversal failed on the first attempt, no open order
\* followed it, and the second attempt closed and then submitted its open order.
C6_OpenLegAfterRetriedClose ==
    \E s \in Symbols :
        /\ AgainstHeld(s)
        /\ Len(Orders(s)) = 3
        /\ ClosesWholePosition(s, Orders(s)[1]) /\ ~Orders(s)[1].ok
        /\ ClosesWholePosition(s, Orders(s)[2]) /\ Orders(s)[2].ok
        /\ IsOpening(Orders(s)[3]) /\ Orders(s)[3].attempt = 1

\* C7: a BUY against a held short that passed the guards and both margin checks, and
\* whose close leg went through, makes exactly two create_market_order calls, a
\* reduce-only buy of the whole short and then a buy of the target quantity, whatever
\* the open leg returns.
C7_ReversalMakesTwoOrders ==
    \A s \in Symbols :
        (pc[s] = "done" /\ loc[s].signal = "BUY" /\ loc[s].position.side = "short"
            /\ loc[s].checked /\ Len(Orders(s)) >= 1 /\ Orders(s)[1].ok)
        => /\ Len(Orders(s)) = 2
           /\ ClosesWholePosition(s, Orders(s)[1])
           /\ IsOpening(Orders(s)[2])
           /\ Orders(s)[2].side = "buy"

\* C8: with open_long and then reverse_long_to_short as the last two trades, a BUY
\* inside the 30 minute window that the cooldowns let through is rejected: the call
\* ends without any exchange call.
C8_WhipsawRejectsReturnToLong ==
    \A s \in Symbols :
        LET history == tradeHistory[s]
            n == Len(history)
        IN  (/\ n >= 2
             /\ history[n - 1].trade_type = "open_long"
             /\ history[n].trade_type = "reverse_long_to_short"
             /\ loc[s].signal = "BUY"
             /\ loc[s].position.side = "short"
             /\ loc[s].timeDiff >= 0
             /\ loc[s].timeDiff < WhipsawWindowMinutes * 60
             /\ ~CooldownRejects(loc[s].signal, loc[s].confidence, loc[s].timeDiff))
            => /\ pc[s] = "done"
               /\ calls[s] = << >>

\* C9: with the last TradeRecord less than 10 minutes old a BUY or SELL of any
\* confidence makes no order; with it 10 to 20 minutes old a BUY or SELL makes no
\* order unless its confidence is HIGH.
C9_CooldownBlocksOrders ==
    \A s \in Symbols :
        (/\ loc[s].signal \in {"BUY", "SELL"}
         /\ loc[s].timeDiff >= 0
         /\ \/ loc[s].timeDiff < 10 * 60
            \/ loc[s].timeDiff < 20 * 60 /\ loc[s].confidence # "HIGH")
        => /\ pc[s] = "done"
           /\ calls[s] = << >>

\* C9, reached: a HIGH confidence BUY or SELL arrived 5 minutes after the last trade
\* and the call returned without an order.
C9_HighConfidenceHeldBack ==
    \E s \in Symbols :
        /\ pc[s] = "done"
        /\ loc[s].signal \in {"BUY", "SELL"}
        /\ loc[s].confidence = "HIGH"
        /\ loc[s].timeDiff > 0
        /\ loc[s].timeDiff < 10 * 60
        /\ calls[s] = << >>

\* a finished CLOSE of confidence HIGH against an open position, outside test mode
ClosingCallEnded(s) ==
    /\ pc[s] = "done"
    /\ loc[s].signal = "CLOSE"
    /\ loc[s].confidence = "HIGH"
    /\ loc[s].position # NoPosition
    /\ loc[s].position.size > 0
    /\ ~loc[s].testMode

\* the call made one order: the reduce-only close of the whole position
OneClosingOrder(s) ==
    /\ Len(calls[s]) = 1
    /\ ClosesWholePosition(s, calls[s][1])

\* C10 as stated: a HIGH confidence CLOSE against an open position, outside test mode,
\* makes a reduce-only close order of the whole position whatever the age of the last
\* TradeRecord.
C10_CloseWhateverTheAge ==
    \A s \in Symbols : ClosingCallEnded(s) => OneClosingOrder(s)

\* C10, amended: such a CLOSE makes the reduce-only close order of the whole position
\* when the symbol has no TradeRecord or the last one is at least 10 minutes old,
\* whichever side the last record has; when the last record is less than 10 minutes
\* old it makes no order.
C10_CloseOutsideHardCooldown ==
    \A s \in Symbols :
        ClosingCallEnded(s) =>
            IF loc[s].timeDiff = NoAge \/ loc[s].timeDiff >= 10 * 60
            THEN OneClosingOrder(s)
            ELSE calls[s] = << >>

\* C10, reached: a HIGH confidence CLOSE that came at least 10 minutes after the last
\* trade closed the whole position.
C10_CloseAfterCooldownSubmitted ==
    \E s \in Symbols :
        /\ ClosingCallEnded(s)
        /\ loc[s].timeDiff >= 10 * 60
        /\ OneClosingOrder(s)
        /\ calls[s][1].ok

----------------------------------------------------------------------------
(* Observations on the steps of a call *)

\* the step appends a TradeRecord to the symbol's trade_history
Appended(s) == tradeHistory'[s] # tradeHistory[s]

\* the TradeRecord the step appended
NewRecord(s) == tradeHistory'[s][Len(tradeHistory'[s])]

\* a create_market_order call that returned
Succeeded(c) == c.op = "order" /\ c.ok

\* the create_market_order calls of the call in progress that returned, in order
SucceededOrders(s) == SelectSeq(calls[s], Succeeded)

\* the locals are those of a CLOSE below confidence HIGH against an open position
WeakClose(l) == l.signal = "CLOSE" /\ l.confidence # "HIGH" /\ l.position # NoPosition

\* the locals are those of a HOLD, or of a CLOSE with no position
NothingToDo(l) == l.signal = "HOLD" \/ (l.signal = "CLOSE" /\ l.position = NoPosition)

\* the locals are those of a BUY or SELL with the signal's side already held
SameSideHeld(l) ==
    \/ l.signal = "BUY" /\ l.position.side = "long"
    \/ l.signal = "SELL" /\ l.position.side = "short"

----------------------------------------------------------------------------
(* Properties of the trade classification and of the retry loop *)

\* C11: a CLOSE whose confidence is not HIGH, against an open position, is rejected:
\* the call ends without an exchange call, appends no TradeRecord and leaves the
\* cached current position as it was.
C11_WeakCloseRejected ==
    [][\A s \in Symbols :
          /\ WeakClose(loc'[s]) => (pc'[s] = "done" /\ calls'[s] = << >>)
          /\ (WeakClose(loc[s]) \/ WeakClose(loc'[s]))
                => (tradeHistory'[s] = tradeHistory[s] /\ webPos'[s] = webPos[s])]_vars

\* C11, reached: a MEDIUM confidence CLOSE, 20 minutes after the trade that opened the
\* position and with the position cached, returned without an order.
C11_MediumCloseReturned ==
    \E s \in Symbols :
        /\ pc[s] = "done"
        /\ loc[s].signal = "CLOSE"
        /\ loc[s].confidence = "MEDIUM"
        /\ loc[s].position # NoPosition
        /\ loc[s].timeDiff >= SoftCooldownMinutes * 60
        /\ webPos[s] # NoPosition
        /\ calls[s] = << >>

\* C12: with no position a BUY (SELL) that is recorded made exactly one successful
\* order, a buy (sell) without reduceOnly, sent no reduce-only order, and is recorded
\* as open_long (open_short); with the opposite side held the record is
\* reverse_short_to_long (reverse_long_to_short); a HOLD, and a CLOSE with no position,
\* make no exchange call and append no TradeRecord.
C12_ClassificationFollowsTable ==
    [][\A s \in Symbols :
          /\ NothingToDo(loc'[s]) => (pc'[s] = "done" /\ calls'[s] = << >>)
          /\ (NothingToDo(loc[s]) \/ NothingToDo(loc'[s]))
                => tradeHistory'[s] = tradeHistory[s]
          /\ (Appended(s) /\ loc[s].signal \in {"BUY", "SELL"}) =>
                LET buy == loc[s].signal = "BUY"
                    done == SucceededOrders(s)
                IN  /\ loc[s].position = NoPosition =>
                          /\ NewRecord(s).trade_type = (IF buy THEN "open_long" ELSE "open_short")
                          /\ Len(done) = 1
                          /\ done[1].side = (IF buy THEN "buy" ELSE "sell")
                          /\ \A i \in 1..Len(calls[s]) : ~calls[s][i].reduceOnly
                    /\ AgainstHeld(s) =>
                          NewRecord(s).trade_type =
                              (IF buy THEN "reverse_short_to_long" ELSE "reverse_long_to_short")]_vars

\* C12, reached: a SELL with no position whose first order failed and whose retry went
\* through has been recorded as open_short.
C12_OpenShortRecordedAfterRetry ==
    \E s \in Symbols :
        /\ pc[s] = "done"
        /\ loc[s].signal = "SELL"
        /\ loc[s].position = NoPosition
        /\ Len(Orders(s)) = 2
        /\ Len(tradeHistory[s]) >= 1
        /\ tradeHistory[s][Len(tradeHistory[s])].trade_type = "open_short"
        /\ tradeHistory[s][Len(tradeHistory[s])].timestamp = clock

\* C13: with the signal's side already held, an order is submitted only if adding is
\* enabled for the symbol, the confidence is HIGH and the value of the position plus
\* the value added is at most max_usable_margin * leverage; otherwise the call makes no
\* order, and it appends no TradeRecord unless an order went through.
C13_AddOnlyWhenAllowed ==
    [][\A s \in Symbols :
          SameSideHeld(loc[s]) =>
              /\ \A i \in 1..Len(calls'[s]) :
                    IsOrder(calls'[s][i]) =>
                        /\ ~calls'[s][i].reduceOnly
                        /\ config[s].enable_add_position
                        /\ loc[s].confidence = "HIGH"
                        /\ (ContractsToBase(s, loc[s].position.size)
                              + ContractsToBase(s, calls'[s][i].qty)) * Price(s) * MarginDen
                               <= loc[s].maxUsable * calls'[s][i].leverage
              /\ Appended(s) => Len(SucceededOrders(s)) >= 1]_vars

\* C13, reached: an add order went out on top of a held position, and it was filled.
C13_AddOrderFilled ==
    \E s \in Symbols :
        /\ SameSideHeld(loc[s])
        /\ Len(Orders(s)) >= 1
        /\ Orders(s)[Len(Orders(s))].ok
        /\ loc[s].tradeType \in {"add_long", "add_short"}

\* C14: the order submission is attempted at most twice per call (attempts 0 and 1,
\* each with at most one opening order); after an error that is not an insufficient
\* funds error the retry works with the unchanged contract quantity; after the failure
\* of the last attempt there is no further exchange call and no TradeRecord.
C14_TwoAttemptsAtMost ==
    [][\A s \in Symbols :
          LET n == Len(calls[s]) IN
          /\ \A i \in 1..Len(calls'[s]) :
                IsOrder(calls'[s][i]) => calls'[s][i].attempt \in 0..(MaxRetries - 1)
          /\ \A i, j \in 1..Len(calls'[s]) :
                (i < j /\ IsOpening(calls'[s][i]) /\ IsOpening(calls'[s][j]))
                    => calls'[s][i].attempt < calls'[s][j].attempt
          /\ \A i, j \in 1..Len(calls'[s]) :
                (/\ IsOrder(calls'[s][i]) /\ calls'[s][i].outcome = "error"
                 /\ calls'[s][i].attempt = 0
                 /\ IsOrder(calls'[s][j]) /\ calls'[s][j].attempt = 1)
                    => calls'[s][j].target = calls'[s][i].target
          /\ (n >= 1 /\ IsOrder(calls[s][n]) /\ ~calls[s][n].ok
                /\ calls[s][n].attempt = MaxRetries - 1 /\ loc[s].signal \in {"BUY", "SELL"})
                    => /\ pc[s] = "done"
                       /\ calls'[s] \in {calls[s], << >>}
                       /\ tradeHistory'[s] = tradeHistory[s]]_vars

\* C14, reached: an opening order failed with an error other than insufficient funds,
\* the retry sent the same quantity and failed too, and the call ended.
C14_BothAttemptsFailed ==
    \E s \in Symbols :
        /\ pc[s] = "done"
        /\ Len(Orders(s)) = 2
        /\ IsOpening(Orders(s)[1]) /\ Orders(s)[1].outcome = "error"
        /\ IsOpening(Orders(s)[2]) /\ ~Orders(s)[2].ok
        /\ Orders(s)[2].qty = Orders(s)[1].qty
        /\ Orders(s)[2].qty > MinContracts(s)

\* C15: after an insufficient funds error on the first attempt the retry quantity is
\* the failed quantity halved and rounded up to the step, and when half of the failed
\* quantity is below min_contracts no order of a second attempt is submitted.
C15_HalvingBelowMinimumAborts ==
    \A s \in Symbols : \A i, j \in 1..Len(calls[s]) :
        (/\ IsOrder(calls[s][i]) /\ calls[s][i].outcome = "insufficient"
         /\ calls[s][i].attempt = 0
         /\ IsOrder(calls[s][j]) /\ calls[s][j].attempt = 1)
        => /\ calls[s][j].target
                = CeilDiv(calls[s][i].target * HalvingPct, 100 * AmountStep(s)) * AmountStep(s)
           /\ calls[s][i].target * HalvingPct >= MinContracts(s) * 100

\* C16, in the part that every call in which a create_market_order returned
\* successfully appends a TradeRecord: when a call has ended, the symbol's history,
\* empty before the call, holds a record if an order of the call went through.
C16_SuccessfulOrderIsRecorded ==
    \A s \in Symbols :
        (pc[s] = "done" /\ cycles[s] = 1 /\ Len(SucceededOrders(s)) >= 1)
            => Len(tradeHistory[s]) >= 1

\* C19: with the symbol's test_mode flag set, execute_trade makes no create_market_order
\* and no set_leverage call, whatever the signal, the confidence and the position.
C19_TestModeMakesNoCall ==
    \A s \in Symbols : config[s].test_mode => calls[s] = << >>

\* C19, reached: under test_mode a HIGH confidence signal that would otherwise reverse
\* or close the held position has returned.
C19_TestModeSignalReturned ==
    \E s \in Symbols :
        /\ config[s].test_mode
        /\ pc[s] = "done"
        /\ loc[s].confidence = "HIGH"
        /\ loc[s].position # NoPosition
        /\ loc[s].signal \in {"SELL", "CLOSE"}
        /\ loc[s].position.side = "long"

----------------------------------------------------------------------------
(* Properties of the analysis *)

\* the step is the analyze_with_llm call of the symbol's task
Analyzed(s) == pc[s] = "analyze" /\ pc'[s] = "publish"

\* the symbol's task holds the result of its analysis and has not returned
Holding(s) == pc[s] \in {"publish", "publishing", "decided", "done"}

\* the reply is missing or malformed: an exception, no response, no choices, no
\* content, no JSON object, an object that does not parse, a required field missing
Malformed(reply) ==
    \/ reply.raised
    \/ ~reply.present
    \/ ~reply.choices
    \/ reply.text # "json"
    \/ reply.fields # RequiredFields

\* C17: when no (confidence, leverage) cell of the sizing matrix is feasible,
\* analyze_with_llm returns a HOLD marked insufficient balance without calling the
\* language model and appends exactly one record of it to the symbol's signal
\* history; the rest of the cycle appends no other and submits no order.
C17_InsufficientBalanceHolds ==
    [][\A s \in Symbols :
          /\ (Analyzed(s) /\ ~CanTrade(s, task'[s].balance))
                => /\ task'[s].signal = "HOLD"
                   /\ task'[s].insufficient
                   /\ ~task'[s].llmCalled
                   /\ signalHistory'[s] =
                         AppendSignal(signalHistory[s],
                                      [timestamp |-> clock, signal |-> "HOLD",
                                       confidence |-> "LOW", leverage |-> LeverageDefault])
          /\ (Holding(s) /\ ~CanTrade(s, task[s].balance))
                => /\ signalHistory'[s] = signalHistory[s]
                   /\ calls'[s] = << >>
                   /\ pc'[s] \in {pc[s], "publishing", "decided", "done", "idle"}
                   /\ exPos'[s] = exPos[s]]_vars

\* C17, reached: with a balance of 10 USDT, which affords the minimum of neither
\* symbol, the cycle has ended in execute_trade's HOLD return with one record in the
\* signal history.
C17_LowBalanceCycleEnded ==
    \E s \in Symbols :
        /\ pc[s] = "done"
        /\ task[s].balance = LowBalance
        /\ ~CanTrade(s, task[s].balance)
        /\ task[s].insufficient
        /\ Len(signalHistory[s]) = 1
        /\ exPos[s].size > 0

\* C18: a missing or malformed reply of the decision layer yields a HOLD signal, and
\* the cycle that received it makes no create_market_order and no set_leverage call
\* and changes neither the position nor the leverage.
C18_MalformedReplyHolds ==
    [][\A s \in Symbols :
          /\ (Analyzed(s) /\ task'[s].llmCalled /\ Malformed(task'[s].reply))
                => task'[s].signal = "HOLD"
          /\ (Holding(s) /\ task[s].llmCalled /\ Malformed(task[s].reply))
                => /\ calls'[s] = << >>
                   /\ pc'[s] \in {pc[s], "publishing", "decided", "done", "idle"}
                   /\ exLev'[s] = exLev[s]
                   /\ exPos'[s] = exPos[s]
                   /\ tradeHistory'[s] = tradeHistory[s]]_vars

\* C18, reached: a reply whose JSON object says SELL at confidence HIGH but lacks the
\* reason field came in while a long position was held, and the cycle has ended.
C18_IncompleteSellEnded ==
    \E s \in Symbols :
        /\ pc[s] = "done"
        /\ task[s].llmCalled
        /\ task[s].reply.text = "json"
        /\ task[s].reply.signal = "SELL"
        /\ task[s].reply.confidence = "HIGH"
        /\ "reason" \notin task[s].reply.fields
        /\ exPos[s].side = "long"
        /\ ~config[s].test_mode

----------------------------------------------------------------------------
(* Properties of the stop flag *)

\* what a step may do once STOP_EVENT is set: no task is submitted, no context is
\* activated, no period is waited for, and a task ends only by its own return
StopHonoured ==
    stop =>
        /\ \A s \in Symbols : pc[s] = "idle" => pc'[s] = "idle"
        /\ ctx' = ctx
        /\ clock' = clock
        /\ mainPc' \in {"waiting", "submitting"} => mainPc' = mainPc
        /\ \A s \in Symbols : (pc[s] # "idle" /\ pc'[s] = "idle") => pc[s] \in {"submitted", "done"}
        /\ mainPc' = "exited" => \A s \in Symbols : pc[s] = "idle"

----------------------------------------------------------------------------
(* The 60-second wait for a task *)

\* the exchange calls of the call the worker of s is in have grown by one
NewCall(s) == Len(calls'[s]) = Len(calls[s]) + 1

\* C21: a task whose 60-second wait ran out is abandoned: it makes no further
\* exchange call, and the batch ends without waiting for it.  The executor thread of
\* the task runs on after the wait gave up and still places its order, and the with
\* block of the executor joins it before the batch ends.
C21_TimedOutTaskIsAbandoned ==
    [][\A s \in timedOut : ~NewCall(s)]_vars
----------------------------------------------------------------------------
(* Model contexts *)

\* the batch of run_all_symbols_parallel of the active context is under way
BatchRunning == mainPc \in {"submitting", "awaiting"}

\* the context of index c is due in this period and its batch has not begun
Due(c) == ctx < c /\ c <= inputs.models

\* C22: the model contexts execute independently: the execution of one account never
\* waits for the lock or for the cycle of another account.  No account's batch of the
\* period is held back while workers of another account's batch are running.
C22_ContextsRunIndependently ==
    \A c \in Contexts :
       ~(BatchRunning /\ Due(c) /\ \E s \in Symbols : pc[s] # "idle")
----------------------------------------------------------------------------
(* server.py: start_bot and initialize_data *)

\* a start that does not look at the bot thread
BotAliveUnchecked == FALSE

\* bot_thread is not None and bot_thread.is_alive()
BotAlive == mainPc # "exited"

\* lines 59-72: with thread_lock held and no bot thread alive the stop flag is cleared
\* and initialize_data begins in the thread of the request
StartBot ==
    /\ web.pc = "idle"
    /\ ~BotAlive
    /\ web.starts < MaxStarts
    /\ NoneReturning
    /\ stop' = FALSE
    /\ web' = [pc |-> "contexts", ctx |-> 0, starts |-> web.starts + 1]
    /\ UNCHANGED <<clock, lock, config, exPos, exLev, tradeHistory, webPos, pc, loc, calls, cycles,
                   served, inputs, mainPc, ctx, accounts, signalHistory, task, timedOut, calc, dataLock>>

\* lines 64-65: with a bot thread alive start_bot answers running=true and does
\* nothing else
StartBotAlive ==
    /\ web.pc = "idle"
    /\ BotAlive
    /\ NoneReturning
    /\ web' = [web EXCEPT !.pc = "answered"]
    /\ UNCHANGED <<clock, lock, config, exPos, exLev, tradeHistory, webPos, pc, loc, calls, cycles,
                   served, inputs, stop, mainPc, ctx, accounts, signalHistory, task, timedOut, calc, dataLock>>

\* the running=true response is sent and the request ends
Answer ==
    /\ web.pc = "answered"
    /\ NoneReturning
    /\ web' = [web EXCEPT !.pc = "idle"]
    /\ UNCHANGED <<clock, lock, config, exPos, exLev, tradeHistory, webPos, pc, loc, calls, cycles,
                   served, inputs, stop, mainPc, ctx, accounts, signalHistory, task, timedOut, calc, dataLock>>

\* initialize_data, lines 278-281: the next context is activated for its batch; after
\* the last one start_bot starts the bot thread (lines 79-80), which enters main, and
\* answers running=true
WebNextContext ==
    /\ web.pc = "contexts"
    /\ NoneReturning
    /\ IF web.ctx >= inputs.models
       THEN /\ web' = [web EXCEPT !.pc = "answered"]
            /\ mainPc' = "setup"
            /\ UNCHANGED <<exPos, exLev, tradeHistory, webPos, signalHistory, served, timedOut>>
       ELSE /\ web' = [web EXCEPT !.pc = "submitting", !.ctx = @ + 1]
            /\ exPos' = accounts[web.ctx + 1].exPos
            /\ exLev' = accounts[web.ctx + 1].exLev
            /\ tradeHistory' = accounts[web.ctx + 1].tradeHistory
            /\ webPos' = accounts[web.ctx + 1].webPos
            /\ signalHistory' = accounts[web.ctx + 1].signalHistory
            /\ served' = {}
            /\ timedOut' = {}
            /\ UNCHANGED mainPc
    /\ UNCHANGED <<clock, lock, config, pc, loc, calls, cycles, inputs, stop, ctx, accounts, task, calc, dataLock>>

\* run_all_symbols_parallel called by initialize_data: a task is submitted
WebSubmitTask(s) ==
    /\ web.pc = "submitting"
    /\ NoneReturning
    /\ ~StopRequested
    /\ s = NextPending
    /\ pc[s] = "idle"
    /\ pc' = [pc EXCEPT ![s] = "submitted"]
    /\ task' = [task EXCEPT ![s] = NoTask]
    /\ served' = served \cup {s}
    /\ UNCHANGED <<clock, lock, config, exPos, exLev, tradeHistory, webPos, loc, calls, cycles,
                   inputs, stop, mainPc, ctx, accounts, signalHistory, timedOut, web, calc, dataLock>>

\* run_all_symbols_parallel called by initialize_data: the submissions are over
WebEndSubmission ==
    /\ web.pc = "submitting"
    /\ NoneReturning
    /\ StopRequested \/ NextPending = "none"
    /\ web' = [web EXCEPT !.pc = "awaiting"]
    /\ UNCHANGED <<clock, lock, config, exPos, exLev, tradeHistory, webPos, pc, loc, calls, cycles,
                   served, inputs, stop, mainPc, ctx, accounts, signalHistory, task, timedOut, calc, dataLock>>

\* run_all_symbols_parallel called by initialize_data: the wait for a task runs out
WebTimeOut(s) ==
    /\ web.pc = "awaiting"
    /\ NoneReturning
    /\ ~StopRequested
    /\ s \in served \ timedOut
    /\ pc[s] # "idle"
    /\ \A i, j \in 1..Len(SymbolOrder) :
          (SymbolOrder[j] = s /\ i < j /\ SymbolOrder[i] \in served)
             => (pc[SymbolOrder[i]] = "idle" \/ SymbolOrder[i] \in timedOut)
    /\ timedOut' = timedOut \cup {s}
    /\ UNCHANGED <<clock, lock, config, exPos, exLev, tradeHistory, webPos, pc, loc, calls, cycles,
                   served, inputs, stop, mainPc, ctx, accounts, signalHistory, task, web, calc, dataLock>>

\* run_all_symbols_parallel called by initialize_data: the executor has joined its
\* tasks and the with block of activate_context is left (server.py lines 281-284)
WebFinishBatch ==
    /\ web.pc = "awaiting"
    /\ \A s \in Symbols : pc[s] = "idle"
    /\ accounts' = [accounts EXCEPT ![web.ctx] = LiveAccount]
    /\ web' = [web EXCEPT !.pc = "contexts"]
    /\ UNCHANGED <<clock, lock, config, exPos, exLev, tradeHistory, webPos, pc, loc, calls, cycles,
                   served, inputs, stop, mainPc, ctx, signalHistory, task, timedOut, calc, dataLock>>

\* main, lines 1297-1306: every context is activated in turn for setup_exchange; when
\* one fails main returns, otherwise the loop begins
Setup ==
    /\ mainPc = "setup"
    /\ NoneReturning
    /\ mainPc' \in {"top", "exited"}
    /\ UNCHANGED <<clock, lock, config, exPos, exLev, tradeHistory, webPos, pc, loc, calls, cycles,
                   served, inputs, stop, ctx, accounts, signalHistory, task, timedOut, web, calc, dataLock>>

\* a step of the server thread that handles the start request
WebStep ==
    \/ StartBot
    \/ StartBotAlive
    \/ Answer
    \/ WebNextContext
    \/ \E s \in Symbols : WebSubmitTask(s)
    \/ WebEndSubmission
    \/ \E s \in Symbols : WebTimeOut(s)
    \/ WebFinishBatch

NextServer ==
    \/ NextCycle
    \/ WebStep
    \/ Setup

\* python server.py serving start and stop requests, configured with one symbol; no
\* bot thread yet, the first account is short and the second long
InitServer ==
    /\ Constructed
    /\ mainPc = "exited"
    /\ web = WebIdle
    /\ calc = NoCalc
    /\ config = ShippedConfig
    /\ exPos = FlatPositions
    /\ accounts = [c \in Contexts |->
                     Account([s \in Symbols |->
                                 [side |-> IF c = 1 THEN "short" ELSE "long", size |-> 4]])]
    /\ inputs = CycleInputs({"ETH"}, Len(ModelOrder), {DefaultAnalysisBalance},
                            {DecisionReply("SELL", "HIGH", NoLeverage)})

SpecServer == InitServer /\ [][NextServer]_vars

\* a thread is inside a with activate_context(ctx) block that runs a batch
BotInside == mainPc \in {"submitting", "awaiting"}

WebInside == web.pc \in {"submitting", "awaiting"}

\* activate_context is entered or left by one of the threads
ContextSwitch == (BotInside' # BotInside) \/ (WebInside' # WebInside)

\* C23: no two threads are inside an activate_context block at the same time, and
\* when activate_context is entered or left no symbol worker is running, also after a
\* task timed out or a stop was requested
C23_SwitchIsGuarded ==
    [][/\ ~(BotInside' /\ WebInside')
       /\ ContextSwitch => \A s \in Symbols : pc[s] = "idle"]_vars

\* the second start initialises the second context after a task of its batch timed
\* out and before that task has ended
C23_SecondStartAfterTimeout ==
    /\ web.starts = MaxStarts
    /\ WebInside
    /\ web.ctx = Len(ModelOrder)
    /\ timedOut # {}
    /\ \E s \in timedOut : pc[s] # "idle"
----------------------------------------------------------------------------
(* What the execution lock serialises *)

\* the positions of run_symbol_cycle before its call of execute_trade
BeforeExecution == {"submitted", "analyze", "publish", "publishing", "decided"}

\* the worker stands at a with data_lock statement while another thread holds it
WaitsForData(s) ==
    /\ pc[s] \in {"submitted", "publish", "record"}
    /\ dataLock \notin {NoWorker, s}

\* C24: market data, the stop-loss check and the decision of a symbol are never
\* blocked by the execution lock: a worker before its execute_trade call can take its
\* next step whoever holds order_execution_lock, unless it waits for data_lock, and
\* a worker that cannot take a step for order_execution_lock stands at the with
\* statement of its own BUY or SELL execution
C24_AnalysisNeverWaitsForLock ==
    \A s \in Symbols :
       NoneReturning =>
          /\ pc[s] \in BeforeExecution => (ENABLED TaskStep(s) \/ WaitsForData(s))
          /\ (pc[s] # "idle" /\ ~ENABLED TaskStep(s) /\ ~WaitsForData(s)) =>
                 (pc[s] = "wait_lock" /\ lock \notin {NoWorker, s} /\ loc[s].signal \in {"BUY", "SELL"})

\* BTC holds the lock while ETH is about to run its analysis
C24_AnalysisBesideLockHolder ==
    /\ lock = "BTC"
    /\ pc["ETH"] = "analyze"
----------------------------------------------------------------------------
(* Failing exchange calls *)

\* one context and both symbols, on an exchange whose every call may fail: the
\* position fetch, the balance fetch, the market data, set_leverage (the decision
\* layer's leverage may differ from the one in force) and the orders
InitFaults ==
    /\ Started
    /\ config = ShippedConfig
    /\ exPos = FlatPositions
    /\ accounts = [c \in Contexts |->
                     Account([s \in Symbols |->
                                 [side |-> IF s = "BTC" THEN "long" ELSE "short", size |-> 4]])]
    /\ inputs = [CycleInputs(Symbols, 1, {DefaultAnalysisBalance},
                             {DecisionReply("SELL", "HIGH", 5)})
                    EXCEPT !.fetches = BOOLEAN]

\* the bot thread and the executor threads are scheduled, and exchange calls return
\* or raise
SpecFaults ==
    /\ InitFaults
    /\ [][NextCycle]_vars
    /\ WF_vars(MainStep)
    /\ \A s \in Symbols : WF_vars(TaskStep(s))

\* an exchange call of the log that raised
Raised(c) == ~c.ok

\* C25: a failing exchange call never leaves run_symbol_cycle as an exception: the
\* task that met it ends, order_execution_lock is not held by a task that has ended,
\* and every task of the batch, once submitted, runs to its end
C25_FailuresStayInsideTheTask ==
    /\ [](\A s \in Symbols : pc[s] \in {"done", "idle"} => lock # s)
    /\ \A s \in Symbols : (pc[s] # "idle") ~> (pc[s] = "idle")

\* the second order of BTC raised as the first had, its execute_trade call has ended
\* and released the lock, and the task of ETH waits to enter the section
C25_FailedTaskReleasedLock ==
    /\ pc["BTC"] = "done"
    /\ Len(calls["BTC"]) >= MaxRetries
    /\ \A i \in 1..Len(calls["BTC"]) : Raised(calls["BTC"][i])
    /\ lock = NoWorker
    /\ pc["ETH"] = "wait_lock"
----------------------------------------------------------------------------
(* market_utils.py over any market metadata: contract specs, the quantity       *)
(* normalizer and the position-suggestion matrix of analyze_with_llm.           *)
(* Contract counts and contract sizes are carried in hundredths (Unit), a       *)
(* fractional count as the pair num / den of hundredths.                        *)

Unit == 100

\* 10 ** p
RECURSIVE Pow10(_)
Pow10(p) == IF p = 0 THEN 1 ELSE 10 * Pow10(p - 1)

\* get_symbol_market: the market of the symbol as ccxt describes it, or {} (loaded
\* FALSE) when it cannot be had.  contractSize and limits.amount.min are 0 when the
\* field is absent; precision.amount is a number of decimal places (an int, mode
\* "places"), a tick size (a float, mode "tick", in hundredths) or absent ("none");
\* increment is amountIncrement / lot, 0 when absent.
NoMarket ==
    [loaded |-> FALSE, contractSize |-> 0, limitMin |-> 0, mode |-> "none", precision |-> 0,
     increment |-> 0]

Precisions ==
    {<<"none", 0>>, <<"places", 0>>, <<"places", 1>>, <<"places", 2>>,
     <<"tick", 1>>, <<"tick", 10>>, <<"tick", Unit>>}

Markets ==
    {NoMarket} \cup
    { [loaded |-> TRUE, contractSize |-> size, limitMin |-> least, mode |-> precision[1],
       precision |-> precision[2], increment |-> increment] :
         size \in {0, 1, Unit}, least \in {0, 1, Unit}, precision \in Precisions,
         increment \in {0, Unit} }

\* lines 418-422: contractSize of the market, or 1
MarketContractSize(market) ==
    IF market.loaded /\ market.contractSize # 0 THEN market.contractSize ELSE Unit

\* lines 431-432: config amount / contract_size, in hundredths of a contract
ConfigMinContracts(market, amount) == (amount * Unit) \div MarketContractSize(market)

\* a floor that only asks the exchange
ExchangeMinimumOnly(marketMin, configMin) == marketMin

\* lines 434-435: the largest of the positive candidates, or 0.0
ResolveMinContracts(marketMin, configMin) ==
    LET candidates == {v \in {marketMin, configMin} : v > 0}
    IN  IF candidates = {} THEN 0 ELSE CHOOSE v \in candidates : \A w \in candidates : w <= v

\* lines 439-470: the step as the exchange states it, or inferred from precision: an
\* int is a number of decimal places, a float below 1 is the step itself, and a
\* whole-valued float is taken for a number of decimal places.  0 stands for None
InferredStep(market) ==
    IF ~market.loaded THEN 0
    ELSE IF market.increment # 0 THEN market.increment
    ELSE IF market.mode = "places" THEN Unit \div Pow10(market.precision)
    ELSE IF market.mode = "tick"
         THEN IF market.precision < Unit THEN market.precision
              ELSE IF market.precision % Unit = 0 THEN Unit \div Pow10(market.precision \div Unit)
              ELSE 0
    ELSE 0

\* get_symbol_contract_specs
ContractSpecs(market, amount) ==
    [contract_size |-> MarketContractSize(market),
     min_contracts |-> ResolveMinContracts(IF market.loaded THEN market.limitMin ELSE 0,
                                           ConfigMinContracts(market, amount)),
     step |-> InferredStep(market)]

\* ex.amount_to_precision of ccxt: the amount truncated to the market's precision, a
\* number of decimal places or a tick size
ExchangeGrid(market) ==
    IF market.mode = "places" THEN Unit \div Pow10(market.precision) ELSE market.precision

\* lines 536-547: precision read as a number of decimal places
IsDecimalPlaces(market) ==
    market.loaded /\ (market.mode = "places" \/ (market.mode = "tick" /\ market.precision % Unit = 0))

DecimalGrid(market) ==
    Unit \div Pow10(IF market.mode = "places" THEN market.precision ELSE market.precision \div Unit)

\* adjust_contract_quantity of the count x.num / x.den; exchangeUp: the exchange
\* object is there and its amount_to_precision does not raise
NormalizeQuantity(market, exchangeUp, x, roundUp) ==
    LET step == InferredStep(market)
        raised == IF roundUp /\ step # 0
                  THEN [num |-> CeilDiv(x.num, x.den * step) * step, den |-> 1]
                  ELSE IF roundUp
                  THEN [num |-> CeilDiv(x.num, x.den * Unit) * Unit, den |-> 1]
                  ELSE x
    IN  IF exchangeUp /\ market.loaded /\ market.mode # "none"
        THEN [num |-> (raised.num \div (raised.den * ExchangeGrid(market))) * ExchangeGrid(market),
              den |-> 1]
        ELSE IF IsDecimalPlaces(market)
        THEN [num |-> IF roundUp
                      THEN CeilDiv(raised.num, raised.den * DecimalGrid(market)) * DecimalGrid(market)
                      ELSE (raised.num \div (raised.den * DecimalGrid(market))) * DecimalGrid(market),
              den |-> 1]
        ELSE raised

\* a margin test that every count passes
MeetsMarginAlways(contracts, size, price, usableNum, leverage) == TRUE

\* ai_analysis.py lines 177 and 179: adjusted_margin <= max_usable_margin, the margin
\* being contracts * contract_size * price / lev and usableNum hundredths of a USDT
MeetsMargin(contracts, size, price, usableNum, leverage) ==
    contracts * size * price <= usableNum * leverage * ((Unit * Unit) \div 100)

\* ai_analysis.py lines 155-201: one cell of position_suggestions.  min_quantity is
\* max(min_base, config amount), in contracts max(min_contracts, config amount /
\* contract_size)
PositionSuggestion(market, amount, exchangeUp, price, balance, confidence, leverage) ==
    LET specs == ContractSpecs(market, amount)
        usableNum == UsableSharePct * balance
        targetNum == usableNum * ConfidenceRatioPct(confidence)
        n == targetNum * leverage
        d == price * specs.contract_size
        least == Max(specs.min_contracts, ConfigMinContracts(market, amount))
        floored == IF n < least * d THEN [num |-> least, den |-> 1] ELSE [num |-> n, den |-> d]
        adjusted == NormalizeQuantity(market, exchangeUp, floored, TRUE)
    IN  [usableNum |-> usableNum,
         targetNum |-> targetNum,
         contracts |-> adjusted.num,
         marginNum |-> adjusted.num * specs.contract_size * price,
         meets_min |-> adjusted.num >= specs.min_contracts,
         meets_margin |-> MeetsMargin(adjusted.num, specs.contract_size, price, usableNum, leverage),
         meets |-> /\ adjusted.num >= specs.min_contracts
                   /\ MeetsMargin(adjusted.num, specs.contract_size, price, usableNum, leverage)]

NoQuantity == [num |-> 0, den |-> 1]

NoCell ==
    [usableNum |-> 0, targetNum |-> 0, contracts |-> 0, marginNum |-> 0, meets_min |-> FALSE,
     meets_margin |-> FALSE, meets |-> FALSE]

NoSpecs == [contract_size |-> 0, min_contracts |-> 0, step |-> 0]

\* the counts the normalizer is given: 0, 0.07, 14.4, 16 and 43.21 / 3 contracts
Quantities ==
    {NoQuantity, [num |-> 7, den |-> 1], [num |-> 1440, den |-> 1], [num |-> 1600, den |-> 1],
     [num |-> 4321, den |-> 3]}

\* the configured minimum base quantities: none, 0.01 and 2
ConfigAmounts == {0, 1, 2 * Unit}

MarketPrices == {30, 3000}

\* one application of a function of market_utils to arguments of the bounded sets
CalcInput(fn, market, amount, exchangeUp, x, roundUp, price, balance, confidence, leverage) ==
    [fn |-> fn, stage |-> "input", market |-> market, amount |-> amount, exchangeUp |-> exchangeUp,
     x |-> x, roundUp |-> roundUp, price |-> price, balance |-> balance, confidence |-> confidence,
     leverage |-> leverage, once |-> NoQuantity, twice |-> NoQuantity, cell |-> NoCell,
     specs |-> NoSpecs]

CalcInputs ==
    { CalcInput("specs", market, amount, TRUE, NoQuantity, FALSE, 30, 0, "LOW", LeverageMin) :
         market \in Markets, amount \in ConfigAmounts }
    \cup
    { CalcInput("adjust", market, 0, up, x, roundUp, 30, 0, "LOW", LeverageMin) :
         market \in Markets, up \in BOOLEAN, x \in Quantities, roundUp \in BOOLEAN }
    \cup
    { CalcInput("cell", market, amount, up, NoQuantity, TRUE, price, balance, confidence, leverage) :
         market \in Markets, amount \in ConfigAmounts, up \in BOOLEAN, price \in MarketPrices,
         balance \in {LowBalance, DefaultAnalysisBalance}, confidence \in Confidences,
         leverage \in LeverageList }

\* everything but calc
programVars ==
    <<clock, lock, config, exPos, exLev, tradeHistory, webPos, pc, loc, calls, cycles, served, inputs,
      stop, mainPc, ctx, accounts, signalHistory, task, timedOut, web, dataLock>>

\* get_symbol_contract_specs(symbol)
Resolve ==
    /\ calc.fn = "specs"
    /\ calc.stage = "input"
    /\ calc' = [calc EXCEPT !.stage = "specs", !.specs = ContractSpecs(calc.market, calc.amount)]
    /\ UNCHANGED programVars

\* adjust_contract_quantity(symbol, x, round_up)
Normalize ==
    /\ calc.fn = "adjust"
    /\ calc.stage = "input"
    /\ calc' = [calc EXCEPT !.stage = "once",
                            !.once = NormalizeQuantity(calc.market, calc.exchangeUp, calc.x, calc.roundUp)]
    /\ UNCHANGED programVars

\* adjust_contract_quantity applied to its own result
NormalizeAgain ==
    /\ calc.fn = "adjust"
    /\ calc.stage = "once"
    /\ calc' = [calc EXCEPT !.stage = "twice",
                            !.twice = NormalizeQuantity(calc.market, calc.exchangeUp, calc.once, calc.roundUp)]
    /\ UNCHANGED programVars

\* the cell of the matrix for one confidence and leverage
Suggest ==
    /\ calc.fn = "cell"
    /\ calc.stage = "input"
    /\ calc' = [calc EXCEPT !.stage = "cell",
                            !.cell = PositionSuggestion(calc.market, calc.amount, calc.exchangeUp,
                                                        calc.price, calc.balance, calc.confidence,
                                                        calc.leverage)]
    /\ UNCHANGED programVars

NextMarket ==
    \/ Resolve
    \/ Normalize
    \/ NormalizeAgain
    \/ Suggest

InitMarket ==
    /\ Constructed
    /\ mainPc = "top"
    /\ web = WebIdle
    /\ config = ShippedConfig
    /\ exPos = FlatPositions
    /\ accounts = [c \in Contexts |-> Account(FlatPositions)]
    /\ inputs = TradingInputs
    /\ calc \in CalcInputs

SpecMarket == InitMarket /\ [][NextMarket]_vars
----------------------------------------------------------------------------
(* Properties of the matrix, the normalizer and the resolver *)

\* the step a count of the symbol is held to: the resolved step, or whole contracts
\* when the metadata gives none
StepInForce(market) == IF InferredStep(market) # 0 THEN InferredStep(market) ELSE Unit

\* C26: a cell of the position-suggestion matrix is flagged feasible iff its rounded
\* contract count is at least min_contracts and the margin recomputed from the rounded
\* count is at most the usable margin; a feasible cell's count is a non-negative
\* multiple of the symbol's step and at least min_contracts
C26_FeasibleIffMinimumAndMargin ==
    calc.stage = "cell" =>
       LET cell == calc.cell
           specs == ContractSpecs(calc.market, calc.amount)
       IN  /\ cell.marginNum = cell.contracts * specs.contract_size * calc.price
           /\ cell.meets <=>
                 /\ cell.contracts >= specs.min_contracts
                 /\ cell.marginNum <= UsableSharePct * calc.balance * calc.leverage * Unit
           /\ cell.meets =>
                 /\ cell.contracts >= 0
                 /\ cell.contracts % StepInForce(calc.market) = 0
                 /\ cell.contracts >= specs.min_contracts

\* a feasible cell on a market of step 0.1 whose count is not a whole number of
\* contracts
C26_FeasibleFractionalCell ==
    /\ calc.stage = "cell"
    /\ calc.cell.meets
    /\ InferredStep(calc.market) = 10
    /\ calc.cell.contracts % Unit # 0

\* the market of the sizing example: contract_size 0.01, min_contracts 1, step 1
ExampleMarket ==
    [loaded |-> TRUE, contractSize |-> 1, limitMin |-> Unit, mode |-> "places", precision |-> 0,
     increment |-> 0]

\* C27: for min_contracts 1, contract_size 0.01, step 1, price 3000, leverage 2,
\* confidence HIGH and available balance 1000 the matrix uses usable margin 720 and
\* target margin 216 and gives 15 contracts with margin 225, feasible.  The matrix
\* takes 80% of the balance with no safety buffer: usable margin 800, target margin
\* 240, 16 contracts, margin 240.
C27_SizingExample ==
    (/\ calc.stage = "cell"
     /\ calc.market = ExampleMarket
     /\ calc.amount = 0
     /\ calc.exchangeUp
     /\ calc.price = 3000
     /\ calc.leverage = 2
     /\ calc.confidence = "HIGH"
     /\ calc.balance = 1000)
    => /\ calc.cell.usableNum = 720 * 100
       /\ calc.cell.targetNum = 216 * 100 * 100
       /\ calc.cell.contracts = 15 * Unit
       /\ calc.cell.marginNum = 225 * Unit * Unit * calc.leverage
       /\ calc.cell.meets

\* C28: the normalizer is idempotent, and with round_up its result is the smallest
\* multiple of the step that is at least x.  A precision of 1.0 (a tick size of one
\* contract) is read as one decimal place: x is raised to a multiple of 0.1 and the
\* exchange then truncates it to whole contracts, below x.
C28_NormalizerIdempotentAndCeiling ==
    calc.stage = "twice" =>
       /\ calc.twice.num * calc.once.den = calc.once.num * calc.twice.den
       /\ (calc.roundUp /\ InferredStep(calc.market) # 0) =>
             /\ calc.once.den = 1
             /\ calc.once.num % InferredStep(calc.market) = 0
             /\ calc.once.num * calc.x.den >= calc.x.num
             /\ (calc.once.num - InferredStep(calc.market)) * calc.x.den < calc.x.num

\* C29: the resolved min_contracts is the larger of the exchange's minimum and the
\* configured minimum base quantity divided by contract_size, so never below either;
\* without market metadata the resolver returns contract_size 1 and the configured
\* floor
C29_MinimumIsTheLargerFloor ==
    calc.stage = "specs" =>
       LET market == calc.market
           size == IF market.loaded /\ market.contractSize # 0 THEN market.contractSize ELSE Unit
           exchangeMin == IF market.loaded THEN market.limitMin ELSE 0
           configured == (calc.amount * Unit) \div size
       IN  /\ calc.specs.min_contracts = Max(exchangeMin, configured)
           /\ calc.specs.min_contracts >= exchangeMin
           /\ calc.specs.min_contracts >= configured
           /\ ~market.loaded =>
                 /\ calc.specs.contract_size = Unit
                 /\ calc.specs.min_contracts = calc.amount

\* no metadata and a configured minimum of 2: contract_size 1, min_contracts 2
C29_ResolvedWithoutMetadata ==
    /\ calc.stage = "specs"
    /\ ~calc.market.loaded
    /\ calc.amount = 2 * Unit
    /\ calc.specs.contract_size = Unit
    /\ calc.specs.min_contracts = 2 * Unit
----------------------------------------------------------------------------
(* The two margin checks *)

\* min(available_balance, MAX_TOTAL_MARGIN_RATIO * total_equity - used_margin) *
\* MARGIN_SAFETY_BUFFER over a balance response, as a numerator over MarginDen
FormulaMargin(snapshot) ==
    Min(100 * snapshot.availBal, MaxTotalMarginRatioPct * snapshot.eq - 100 * snapshot.imr)
        * MarginSafetyBufferPct

\* 35% of the free USDT balance, as a numerator over MarginDen
DegradedMargin(snapshot) == snapshot.free * FallbackMarginPct * 100

\* both checks of the call of s have passed and no exchange call has followed
BothChecked(s) == pc[s] = "set_leverage" /\ loc[s].checked

----------------------------------------------------------------------------
(* Leverage and the signal's own size *)

\* the same side was held and the attempt made no order
EndedAsNoOp(s) == pc[s] = "record" /\ loc[s].tradeType = "none"

\* C31: a BUY or SELL that ends as a no-op, because its side is already held and
\* nothing may be added, changes nothing on the exchange: execute_trade has made
\* neither a create_market_order nor a set_leverage call, whatever leverage the
\* decision carries.  set_leverage of lines 836-847 comes before the branch of lines
\* 870-898 that finds the no-op.
C31_NoOpLeavesExchangeAlone ==
    \A s \in Symbols : EndedAsNoOp(s) => calls[s] = << >>

\* the step is a set_leverage call of the worker of s
LeverageSet(s) ==
    /\ NewCall(s)
    /\ calls'[s][Len(calls'[s])].op = "set_leverage"

\* the quantity the worker holds fits the usable margin of its fresh snapshot, or is
\* the accepted downsize to it
FitsFreshSnapshot(s) ==
    LET fresh == UsableMarginNum(loc[s].fresh_balance, loc[s].fresh_balance.free)
    IN  \/ ~ExceedsMargin(s, loc[s].contracts, loc[s].leverage, fresh)
        \/ /\ loc[s].contracts = DownsizedContracts(s, loc[s].leverage, fresh)
           /\ DownsizeAccepted(s, loc[s].contracts)

\* C32: set_leverage is called only after the balance, minimum-size and margin checks
\* of both snapshots have passed, and the leverage on the exchange changes in no
\* other step: an execution that aborts at a check leaves the leverage alone.
C32_LeverageAfterBothChecks ==
    [][\A s \in Symbols :
          /\ LeverageSet(s)
                => /\ pc[s] = "set_leverage"
                   /\ loc[s].balance # NoSnapshot
                   /\ ParseUsdtBalance(loc[s].balance) > 0
                   /\ loc[s].fresh_balance # NoSnapshot
                   /\ loc[s].fresh_balance.hasUSDT
                   /\ loc[s].contracts >= MinContracts(s)
                   /\ FitsFreshSnapshot(s)
          /\ exLev'[s] # exLev[s] => LeverageSet(s)]_vars

\* C32, reached: the leverage was raised to 3 after a first snapshot with 400 USDT
\* free and a fresh one with 100 USDT free, to which the quantity had been downsized
C32_LeverageRaisedAfterDownsize ==
    \E s \in Symbols :
        /\ pc[s] = "attempt"
        /\ Len(calls[s]) = 1
        /\ calls[s][1].op = "set_leverage"
        /\ calls[s][1].ok
        /\ exLev[s] = LeverageMax
        /\ loc[s].balance.free = 400
        /\ loc[s].fresh_balance.free = 100
        /\ loc[s].contracts < 7

\* the worker of s has passed its first margin check in this step
FirstCheckPassed(s) == pc[s] = "first_balance" /\ pc'[s] = "second_balance"

\* the standard quantity of the decision's confidence tier and leverage, in contracts
StandardContracts(l, s) == ExpectedContracts(s, l.confidence, l.leverage, l.maxUsable)

\* the contracts are what normalisation makes of a quantity within [0.8, 1.2] times
\* the standard quantity: not below 0.8 times it, and less than one step above 1.2
\* times it
WithinBand(l, s) ==
    /\ l.contracts * 10 >= StandardContracts(l, s) * 8
    /\ (l.contracts - AmountStep(s)) * 10 < StandardContracts(l, s) * 12

\* C33: whichever field gives the size, order_quantity or order_value, a size outside
\* [0.8, 1.2] times the standard quantity is replaced by the standard quantity before
\* the margin checks: the quantity that leaves the first check is the standard one,
\* one within the band, or the downsize of the check.  Lines 694-696 take the
\* quantity of order_value as it is.
C33_SizeIsSanityBounded ==
    [][\A s \in Symbols :
          FirstCheckPassed(s)
             => \/ loc'[s].contracts = StandardContracts(loc'[s], s)
                \/ WithinBand(loc'[s], s)
                \/ loc'[s].contracts = DownsizedContracts(s, loc'[s].leverage, loc'[s].maxUsable)]_vars

\* the first snapshot gave a positive balance from a response of the shape of the
\* fresh one
SameShape(s) ==
    /\ loc[s].balance # NoSnapshot
    /\ loc[s].fresh_balance # NoSnapshot
    /\ loc[s].balance.hasUSDT = loc[s].fresh_balance.hasUSDT
    /\ loc[s].balance.hasDetails = loc[s].fresh_balance.hasDetails
    /\ ParseUsdtBalance(loc[s].balance) > 0

\* C34: both snapshots accept the same response shapes: when the fresh response has
\* the shape of one the first check took a positive balance from, the second check
\* obtains a usable margin from it and does not end the trade with an error.  A fresh
\* response with the details entry only raises KeyError at line 761.
C34_SnapshotsAcceptSameShapes ==
    \A s \in Symbols : SameShape(s) => loc[s].error = "none"
----------------------------------------------------------------------------
(* The two locks *)

\* C35: the two locks cannot deadlock: the holder of data_lock is inside its web_data
\* update and does not request order_execution_lock, a task that has ended holds
\* neither lock, whether it returned early or met an exception, and a worker that
\* waits for order_execution_lock gets it.
C35_LocksNeverDeadlock ==
    /\ [](\A s \in Symbols :
             /\ dataLock = s => pc[s] = "publishing"
             /\ pc[s] \in {"done", "idle"} => (lock # s /\ dataLock # s))
    /\ \A s \in Symbols : (pc[s] = "wait_lock") ~> (lock = s)

\* C35, reached: BTC holds order_execution_lock and is about to record its trade
\* under data_lock, which ETH holds for its web_data update
C35_RecordWaitsForDataLock ==
    /\ lock = "BTC"
    /\ pc["BTC"] = "record"
    /\ loc["BTC"].tradeType # "none"
    /\ dataLock = "ETH"
----------------------------------------------------------------------------
(* Stop-loss, low confidence, leverage range, history bounds *)

\* the execute_trade call of s is the forced CLOSE of run_symbol_cycle: no analysis
\* was made in the task
ForcedClose(s) ==
    /\ task[s] = NoTask
    /\ loc[s].signal = "CLOSE"
    /\ loc[s].confidence = "HIGH"
    /\ loc[s].position # NoPosition

\* the call in progress has submitted a reduce-only order for the whole position
ClosedInFull(s) ==
    \E i \in 1..Len(calls[s]) :
        /\ calls[s][i].op = "order"
        /\ calls[s][i].reduceOnly
        /\ calls[s][i].qty = loc[s].position.size

\* C36: when the stop-loss or take-profit check triggers, the decision layer is not
\* consulted and execute_trade gets a forced CLOSE of confidence HIGH, which outside
\* test mode submits a reduce-only order for the whole position in that cycle.  The
\* cooldown of lines 449-461 applies to the forced CLOSE as to any other signal.
C36_StopLossClosesInCycle ==
    \A s \in Symbols :
        (ForcedClose(s) /\ ~loc[s].testMode /\ pc[s] = "done") => ClosedInFull(s)

\* C37: outside test mode a BUY or SELL of confidence LOW makes no create_market_order
\* and no set_leverage call, whatever position is held and whatever was traded before.
C37_LowConfidenceMakesNoCall ==
    \A s \in Symbols :
        (loc[s].signal \in {"BUY", "SELL"} /\ loc[s].confidence = "LOW" /\ ~loc[s].testMode)
           => /\ calls[s] = << >>
              /\ pc[s] = "done"

\* C37, reached: a BUY of confidence LOW against a held short position, whose last
\* trade is old enough for no cooldown to hold the signal back, has returned
C37_LowBuyAgainstShortReturned ==
    \E s \in Symbols :
        /\ pc[s] = "done"
        /\ loc[s].signal = "BUY"
        /\ loc[s].confidence = "LOW"
        /\ ~loc[s].testMode
        /\ loc[s].position.side = "short"
        /\ loc[s].timeDiff >= SoftCooldownMinutes * 60

\* the task holds a decision parsed from the reply of the decision layer
Parsed(s) == task[s].llmCalled /\ ~Malformed(task[s].reply)

\* what the leverage field of a reply is to become
Clamped(leverage) ==
    IF leverage \in {NoLeverage, NotANumber} THEN LeverageDefault
    ELSE IF leverage > LeverageMax THEN LeverageMax
    ELSE IF leverage < LeverageMin THEN LeverageMin
    ELSE leverage

\* C38: the leverage of a parsed decision is within [leverage_min, leverage_max] when
\* it reaches execute_trade: out-of-range values are clamped to the nearer bound, a
\* missing or non-numeric value becomes leverage_default, validating the result again
\* changes nothing, and no set_leverage call carries a value above leverage_max.
C38_LeverageWithinRange ==
    \A s \in Symbols :
        /\ Parsed(s)
              => /\ task[s].leverage \in LeverageMin..LeverageMax
                 /\ task[s].leverage = Clamped(task[s].reply.leverage)
                 /\ ValidateLeverage(task[s].leverage) = task[s].leverage
        /\ \A i \in 1..Len(calls[s]) :
              calls[s][i].op = "set_leverage" => calls[s][i].qty \in LeverageMin..LeverageMax

\* C38, reached: the reply asked for leverage 5 and set_leverage was called with 3
C38_ExcessLeverageClamped ==
    \E s \in Symbols :
        /\ Parsed(s)
        /\ task[s].reply.leverage = 5
        /\ Len(calls[s]) >= 1
        /\ calls[s][1].op = "set_leverage"
        /\ calls[s][1].qty = LeverageMax

\* seconds since the records an account already holds were made
RecordsAge == 3600

\* n records of trades made long ago
OldTrades(n) ==
    [i \in 1..n |-> [timestamp |-> -RecordsAge, trade_type |-> "open_long", side |-> "long",
                     contracts |-> 4, leverage |-> LeverageDefault]]

\* n signals recorded long ago
OldSignals(n) ==
    [i \in 1..n |-> [timestamp |-> -RecordsAge, signal |-> "HOLD", confidence |-> "LOW",
                     leverage |-> LeverageDefault]]

\* an account that has traded for long: it is long 4 contracts of every symbol and
\* its histories are at their limits
SeasonedAccount ==
    [Account([s \in Symbols |-> [side |-> "long", size |-> 4]])
        EXCEPT !.tradeHistory = [s \in Symbols |-> OldTrades(TradeHistoryLimit)],
               !.signalHistory = [s \in Symbols |-> OldSignals(SignalHistoryLimit)]]

\* one period of a bot that trades BTC for such an account
InitHistory ==
    /\ Started
    /\ config = ShippedConfig
    /\ exPos = FlatPositions
    /\ accounts = [c \in Contexts |-> SeasonedAccount]
    /\ inputs = CycleInputs({"BTC"}, 1, {DefaultAnalysisBalance},
                            {DecisionReply(signal, "HIGH", NoLeverage) : signal \in Signals})

SpecHistory == InitHistory /\ [][NextCycle]_vars

\* C39: the histories stay bounded whatever mix of BUY, SELL, HOLD and executed CLOSE
\* decisions occurs: trade_history holds at most 100 records and signal_history at
\* most 200.  The CLOSE branch appends its record to signal_history at line 522
\* without dropping the oldest.
C39_HistoriesStayBounded ==
    \A s \in Symbols :
        /\ Len(tradeHistory[s]) <= TradeHistoryLimit
        /\ Len(signalHistory[s]) <= SignalHistoryLimit
----------------------------------------------------------------------------
(* Start and stop requests *)

\* the step is start_bot deciding on the answer running=true
AnswersRunning == web.pc # "answered" /\ web'.pc = "answered"

\* C40: whenever start_bot answers running=true a bot thread is alive and the stop
\* flag is clear, so that cycles go on until a later stop request; a start that comes
\* after a stop, while the old thread has not exited yet, leaves the bot running.
\* With the old thread still alive start_bot returns at line 65, before the stop
\* flag is cleared at line 67.
C40_RunningAnswerMeansRunning ==
    [][AnswersRunning => (BotAlive' /\ ~stop')]_vars
====
